---------------------------- MODULE Spec2Model ----------------------------
(***************************************************************************)
(* A model of the binary numeric codec of use-url-params: the alphabet     *)
(* registry (src/alphabet.ts), the byte-oriented base64 codec (binary.ts), *)
(* the IEEE-754 decomposer, the fixed-point converter, the BitBuffer and   *)
(* the float/point converter factories (float.ts), and the React hooks     *)
(* useUrlState and useUrlStates, the writeToUrl functions and the snapshot *)
(* cache (hooks.ts) over the location strategies and the patched History   *)
(* API (core.ts).                                                          *)
(*                                                                         *)
(* Conventions.                                                            *)
(*  - A JavaScript string is a sequence of one-character strings.          *)
(*  - A JavaScript value that may be of several types is a record with a   *)
(*    tag t: [t |-> "undefined"], [t |-> "string", s |-> ...], ...         *)
(*  - A call that may throw returns [threw |-> BOOLEAN, val |-> ...].      *)
(*  - A JavaScript number is its IEEE-754 binary64 fields.                 *)
(*  - A BigInt is a function 0..63 -> {0,1} (bit i has weight 2^i).        *)
(***************************************************************************)
EXTENDS Integers, Sequences, FiniteSets, TLC

VARIABLES
    op,           \* name of the last operation performed ("init" at first)
    arg,          \* its arguments
    ret,          \* what it returned or threw
    conv,         \* the converter under test (the options given to the factory)
    wbuf,         \* the BitBuffer being written
    rbuf,         \* the BitBuffer made by BitBuffer.fromBase64 (SpecCursor: wbuf before the call)
    fields,       \* ghost: the fields written to wbuf, in order (SpecLookup: the tables built)
    text,         \* the string last returned by wbuf.toBase64 (SpecCursor: with its call)
    opts,         \* the Base64Options given to that toBase64 (SpecCursor: the call before)
    nread,        \* ghost: how many fields have been decoded from rbuf (-1: no rbuf)
    lookupCache,  \* binary.ts lookupCache: alphabet string -> lookup map
    location,     \* window.location: the parameters of its search and hash parts
    history,      \* ghost: the calls made to history.pushState / replaceState
    hooks,        \* the mounted hook instances: their refs, timer and last render
    defaultStrategy,  \* core.ts defaultStrategy: "query" or "hash"
    snapshotCache,  \* hooks.ts snapshotCache: strategy -> [raw, snapshot]
    returned      \* ghost: the getSnapshot calls made: strategy, raw and object returned

\* the browser page the hooks live in
page == <<location, history, hooks, defaultStrategy, snapshotCache, returned>>
\* the codec under test
codec == <<op, arg, ret, conv, wbuf, rbuf, fields, text, opts, nread, lookupCache>>
vars == <<codec, page>>
\* the codec variables core.ts and the hooks leave alone: the converter, the
\* BitBuffers and the lookupCache (a memo: decode returns the same with it);
\* and the snapshotCache, which SpecSnapshot alone follows (elsewhere equal
\* snapshots stand for the identical object)
idle == <<conv, wbuf, rbuf, fields, text, opts, nread, lookupCache, snapshotCache, returned>>

-----------------------------------------------------------------------------
(* Integer helpers: JavaScript's 32-bit operators on the ranges the code    *)
(* uses them on.                                                            *)

RECURSIVE Pow2(_)
Pow2(k) == IF k <= 0 THEN 1 ELSE 2 * Pow2(k - 1)

Min(a, b) == IF a < b THEN a ELSE b
Max(a, b) == IF a > b THEN a ELSE b

\* a << k and a >> k for 0 <= a and a results below 2^31
Shl(a, k) == a * Pow2(k)
Shr(a, k) == a \div Pow2(k)

RECURSIVE BitAndNat(_, _)
BitAndNat(a, b) ==
    IF a = 0 \/ b = 0 THEN 0
    ELSE (a % 2) * (b % 2) + 2 * BitAndNat(a \div 2, b \div 2)

RECURSIVE BitOrNat(_, _)
BitOrNat(a, b) ==
    IF a = 0 THEN b
    ELSE IF b = 0 THEN a
    ELSE Max(a % 2, b % 2) + 2 * BitOrNat(a \div 2, b \div 2)

\* a & b for b >= 0 (bit 31 of b clear): the low 31 bits of a negative a in
\* two's complement are a + 2^31.
BitAnd(a, b) == IF a >= 0 THEN BitAndNat(a, b) ELSE BitAndNat((a + 2147483647) + 1, b)
BitOr(a, b) == BitOrNat(a, b)

Range(s) == {s[i] : i \in 1..Len(s)}

-----------------------------------------------------------------------------
(* JavaScript values and completions.                                       *)

Undefined == [t |-> "undefined"]
Null == [t |-> "null"]

\* no page: the specifications of the codec run outside a browser
NoPage ==
    /\ location = Undefined
    /\ history = Undefined
    /\ hooks = Undefined
    /\ defaultStrategy = Undefined
    /\ snapshotCache = Undefined
    /\ returned = Undefined
Str(s) == [t |-> "string", s |-> s]
IsStr(v) == v.t = "string"

Ok(v) == [threw |-> FALSE, val |-> v]
Throw(e) == [threw |-> TRUE, val |-> e]

-----------------------------------------------------------------------------
(* src/alphabet.ts                                                          *)

\* 'ABCDEFGHIJKLMNOPQRSTUVWXYZabcdefghijklmnopqrstuvwxyz0123456789-_'
Rfc4648 ==
    << "A","B","C","D","E","F","G","H","I","J","K","L","M",
       "N","O","P","Q","R","S","T","U","V","W","X","Y","Z",
       "a","b","c","d","e","f","g","h","i","j","k","l","m",
       "n","o","p","q","r","s","t","u","v","w","x","y","z",
       "0","1","2","3","4","5","6","7","8","9","-","_" >>

\* the sortable preset with '_' put after the letters instead of at its
\* ASCII position between 'Z' and 'a'
SortableUnderscoreLast ==
    << "-","0","1","2","3","4","5","6","7","8","9",
       "A","B","C","D","E","F","G","H","I","J","K","L","M",
       "N","O","P","Q","R","S","T","U","V","W","X","Y","Z",
       "a","b","c","d","e","f","g","h","i","j","k","l","m",
       "n","o","p","q","r","s","t","u","v","w","x","y","z","_" >>

\* '-0123456789ABCDEFGHIJKLMNOPQRSTUVWXYZ_abcdefghijklmnopqrstuvwxyz'
Sortable ==
    << "-","0","1","2","3","4","5","6","7","8","9",
       "A","B","C","D","E","F","G","H","I","J","K","L","M",
       "N","O","P","Q","R","S","T","U","V","W","X","Y","Z","_",
       "a","b","c","d","e","f","g","h","i","j","k","l","m",
       "n","o","p","q","r","s","t","u","v","w","x","y","z" >>

NameRfc4648 == << "r","f","c","4","6","4","8" >>
NameSortable == << "s","o","r","t","a","b","l","e" >>

\* The own properties of the object literal ALPHABETS.
ALPHABETS == [k \in {NameRfc4648, NameSortable} |->
                 IF k = NameRfc4648 THEN Rfc4648 ELSE Sortable]

\* ALPHABETS is an ordinary object literal, so its prototype is
\* Object.prototype; these are (some of) the property names it inherits.
ObjectPrototypeKeys ==
    { << "c","o","n","s","t","r","u","c","t","o","r" >>,
      << "t","o","S","t","r","i","n","g" >>,
      << "v","a","l","u","e","O","f" >>,
      << "_","_","p","r","o","t","o","_","_" >> }

\* key in obj: own properties and those inherited through the prototype chain
In(key, own) == key \in DOMAIN own \/ key \in ObjectPrototypeKeys

\* obj[key]: an own property's string, or the inherited member (not a string)
Get(key, own) ==
    IF key \in DOMAIN own THEN Str(own[key])
    ELSE IF key \in ObjectPrototypeKeys THEN [t |-> "inherited", name |-> key]
    ELSE Undefined

\* URL_SAFE_CHARS = /^[A-Za-z0-9\-_]+$/
UrlSafeChar ==
    { "A","B","C","D","E","F","G","H","I","J","K","L","M",
      "N","O","P","Q","R","S","T","U","V","W","X","Y","Z",
      "a","b","c","d","e","f","g","h","i","j","k","l","m",
      "n","o","p","q","r","s","t","u","v","w","x","y","z",
      "0","1","2","3","4","5","6","7","8","9","-","_" }
UrlSafeTest(s) == Len(s) >= 1 /\ \A i \in 1..Len(s) : s[i] \in UrlSafeChar

\* the for-of loop of validateAlphabet: the first index whose character was
\* seen before, or 0
RECURSIVE FirstDuplicate(_, _, _)
FirstDuplicate(alphabet, i, seen) ==
    IF i > Len(alphabet) THEN 0
    ELSE IF alphabet[i] \in seen THEN i
    ELSE FirstDuplicate(alphabet, i + 1, seen \cup {alphabet[i]})

validateAlphabet(alphabet) ==
    IF Len(alphabet) # 64 THEN Throw("Alphabet must be exactly 64 characters")
    ELSE IF FirstDuplicate(alphabet, 1, {}) # 0 THEN Throw("Duplicate character in alphabet")
    ELSE IF ~UrlSafeTest(alphabet) THEN Throw("Alphabet contains non-URL-safe characters")
    ELSE Ok(Undefined)

resolveAlphabet(alphabet) ==
    IF In(alphabet, ALPHABETS) THEN Ok(Get(alphabet, ALPHABETS))
    ELSE LET v == validateAlphabet(alphabet)
         IN  IF v.threw THEN v ELSE Ok(Str(alphabet))

\* createLookupMap: new Map(alphabet.split('').map((c, i) => [c, i]))
\* (a later entry for the same character replaces an earlier one)
createLookupMap(alphabet) ==
    [c \in Range(alphabet) |->
        LET at == {i \in 1..Len(alphabet) : alphabet[i] = c}
        IN  (CHOOSE i \in at : \A j \in at : j <= i) - 1]

-----------------------------------------------------------------------------
(* binary.ts: the byte-oriented base64 codec                                *)

\* '0123456789ABCDEFGHIJKLMNOPQRSTUVWXYZabcdefghijklmnopqrstuvwxyz-_', the
\* custom alphabet of binary.test.ts
Custom ==
    << "0","1","2","3","4","5","6","7","8","9",
       "A","B","C","D","E","F","G","H","I","J","K","L","M",
       "N","O","P","Q","R","S","T","U","V","W","X","Y","Z",
       "a","b","c","d","e","f","g","h","i","j","k","l","m",
       "n","o","p","q","r","s","t","u","v","w","x","y","z","-","_" >>

\* Base64Options: { alphabet?: Alphabet } or undefined
Options(alphabet) == [t |-> "object", alphabet |-> alphabet]
OptAlphabet(options) == IF options.t = "object" THEN options.alphabet ELSE Undefined
\* ToBoolean of a string or undefined
Truthy(v) == v.t = "string" /\ v.s # << >>

\* chars[i] for a resolved alphabet; indexing the inherited (non-string)
\* member gives undefined, which += appends as the text 'undefined'
CharAt(chars, i) ==
    IF IsStr(chars) THEN << chars.s[i + 1] >>
    ELSE << "u","n","d","e","f","i","n","e","d" >>

\* bytes[i] ?? 0 (0-based; reading past a Uint8Array gives undefined)
ByteAt(bytes, i) == IF i < Len(bytes) THEN bytes[i + 1] ELSE 0

RECURSIVE EncodeGroups(_, _, _, _)
EncodeGroups(bytes, chars, i0, result) ==
    IF ~(i0 < Len(bytes)) THEN result
    ELSE LET b0 == ByteAt(bytes, i0)
             b1 == ByteAt(bytes, i0 + 1)
             b2 == ByteAt(bytes, i0 + 2)
             i  == i0 + 3
             n  == BitOr(BitOr(Shl(b0, 16), Shl(b1, 8)), b2)
             r2 == result \o CharAt(chars, BitAnd(Shr(n, 18), 63))
                          \o CharAt(chars, BitAnd(Shr(n, 12), 63))
             r3 == IF i - 2 < Len(bytes)
                   THEN r2 \o CharAt(chars, BitAnd(Shr(n, 6), 63)) ELSE r2
             r4 == IF i - 1 < Len(bytes)
                   THEN r3 \o CharAt(chars, BitAnd(n, 63)) ELSE r3
         IN  EncodeGroups(bytes, chars, i, r4)

base64Encode(bytes, options) ==
    LET chars == IF Truthy(OptAlphabet(options))
                 THEN resolveAlphabet(OptAlphabet(options).s)
                 ELSE Ok(Str(ALPHABETS[NameRfc4648]))
    IN  IF chars.threw THEN chars
        ELSE Ok(Str(EncodeGroups(bytes, chars.val, 0, << >>)))

DEFAULT_LOOKUP == createLookupMap(ALPHABETS[NameRfc4648])

\* fault: a getLookupMap that ignores the alphabet it is given
getLookupMapDefaultOnly(alphabet, cache) == [lookup |-> DEFAULT_LOOKUP, cache |-> cache]

\* getLookupMap(alphabet) with the module-level lookupCache passed in and out
getLookupMap(alphabet, cache) ==
    IF alphabet = ALPHABETS[NameRfc4648]
    THEN [lookup |-> DEFAULT_LOOKUP, cache |-> cache]
    ELSE IF alphabet \in DOMAIN cache
    THEN [lookup |-> cache[alphabet], cache |-> cache]
    ELSE LET lookup == createLookupMap(alphabet)
         IN  [lookup |-> lookup,
              cache |-> [a \in DOMAIN cache \cup {alphabet} |->
                            IF a = alphabet THEN lookup ELSE cache[a]]]

\* lookup.get(str[i]) ?? 0 (0-based; str[i] past the end is undefined)
LookupGet(lookup, str, i) ==
    IF i < Len(str) /\ str[i + 1] \in DOMAIN lookup THEN lookup[str[i + 1]] ELSE 0

\* str.replace(/=+$/, '')
RECURSIVE StripPadding(_)
StripPadding(str) ==
    IF Len(str) > 0 /\ str[Len(str)] = "=" THEN StripPadding(SubSeq(str, 1, Len(str) - 1))
    ELSE str

RECURSIVE DecodeGroups(_, _, _, _)
DecodeGroups(str, lookup, i, bytes) ==
    IF ~(i < Len(str)) THEN bytes
    ELSE LET c0 == LookupGet(lookup, str, i)
             c1 == LookupGet(lookup, str, i + 1)
             c2 == IF i + 2 < Len(str) THEN LookupGet(lookup, str, i + 2) ELSE 0
             c3 == IF i + 3 < Len(str) THEN LookupGet(lookup, str, i + 3) ELSE 0
             n  == BitOr(BitOr(BitOr(Shl(c0, 18), Shl(c1, 12)), Shl(c2, 6)), c3)
             p1 == Append(bytes, BitAnd(Shr(n, 16), 255))
             p2 == IF i + 2 < Len(str) THEN Append(p1, BitAnd(Shr(n, 8), 255)) ELSE p1
             p3 == IF i + 3 < Len(str) THEN Append(p2, BitAnd(n, 255)) ELSE p2
         IN  DecodeGroups(str, lookup, i + 4, p3)

\* base64Decode; the result carries the lookupCache as the call leaves it.
\* An alphabet that resolves to a non-string makes createLookupMap throw
\* (alphabet.split is not a function).
base64Decode(str, options, cache) ==
    LET alphabet == IF Truthy(OptAlphabet(options))
                    THEN resolveAlphabet(OptAlphabet(options).s)
                    ELSE Ok(Str(ALPHABETS[NameRfc4648]))
    IN  IF alphabet.threw THEN [threw |-> TRUE, val |-> alphabet.val, cache |-> cache]
        ELSE IF ~IsStr(alphabet.val)
        THEN [threw |-> TRUE, val |-> "TypeError", cache |-> cache]
        ELSE LET g == getLookupMap(alphabet.val.s, cache)
             IN  [threw |-> FALSE,
                  val   |-> DecodeGroups(StripPadding(str), g.lookup, 0, << >>),
                  cache |-> g.cache]

-----------------------------------------------------------------------------
(* BigInt: the values the code computes stay below 2^64, so a BigInt is its *)
(* low 64 bits; a shift past bit 63 leaves 0, which is also what the code's *)
(* (1n << k) & mant gives for such k.                                       *)

BigWidth == 0..63
BigZero == [i \in BigWidth |-> 0]
\* 1n << BigInt(k); a negative count shifts right, leaving 0
BigBit(k) == [i \in BigWidth |-> IF i = k THEN 1 ELSE 0]
BigAnd(a, b) == [i \in BigWidth |-> a[i] * b[i]]
BigOr(a, b) == [i \in BigWidth |-> Max(a[i], b[i])]
BigShrNat(a, k) == [i \in BigWidth |-> IF i + k \in BigWidth THEN a[i + k] ELSE 0]
BigShlNat(a, k) == [i \in BigWidth |-> IF i - k \in BigWidth THEN a[i - k] ELSE 0]
\* a >> BigInt(k) and a << BigInt(k): a negative count reverses the direction
BigShr(a, k) == IF k >= 0 THEN BigShrNat(a, k) ELSE BigShlNat(a, 0 - k)
BigShl(a, k) == IF k >= 0 THEN BigShlNat(a, k) ELSE BigShrNat(a, 0 - k)
\* a + 1n: the lowest clear bit is set and the bits below it cleared
BigInc(a) ==
    LET clear == {i \in BigWidth : a[i] = 0}
    IN  IF clear = {} THEN BigZero
        ELSE LET k == CHOOSE i \in clear : \A j \in clear : i <= j
             IN  [i \in BigWidth |-> IF i < k THEN 0 ELSE IF i = k THEN 1 ELSE a[i]]
\* a - 1n: the lowest set bit is cleared and the bits below it set
BigDec(a) ==
    LET set == {i \in BigWidth : a[i] = 1}
    IN  IF set = {} THEN [i \in BigWidth |-> 1]
        ELSE LET k == CHOOSE i \in set : \A j \in set : i <= j
             IN  [i \in BigWidth |-> IF i < k THEN 1 ELSE IF i = k THEN 0 ELSE a[i]]
\* a.toString(2).length for a # 0n
BigBitLength(a) ==
    LET set == {i \in BigWidth : a[i] = 1}
    IN  IF set = {} THEN 1 ELSE (CHOOSE i \in set : \A j \in set : j <= i) + 1

RECURSIVE BitsToNat(_, _, _)
\* the number made of bits lo .. lo+len-1 of a (len <= 30)
BitsToNat(a, lo, len) ==
    IF len <= 0 THEN 0
    ELSE (IF lo \in BigWidth THEN a[lo] ELSE 0) + 2 * BitsToNat(a, lo + 1, len - 1)
\* Number(a) for a below 2^30
BigToNumber(a) == BitsToNat(a, 0, 30)
\* BigInt(n) for 0 <= n < 2^31
BigFromNumber(n) == [i \in BigWidth |-> IF i <= 30 THEN Shr(n, i) % 2 ELSE 0]

-----------------------------------------------------------------------------
(* float.ts: class BitBuffer. An object is the record of its fields; a      *)
(* method takes the object and returns it as the call leaves it.            *)

\* new BitBuffer()
NewBitBuffer == [buf |-> << >>, byteOffset |-> 0, bitOffset |-> 0, end |-> 0]

totalBitOffset(this) == this.byteOffset * 8 + this.bitOffset

\* fault: a seek that leaves the cursor where it is
seekNowhere(this, total) == this

seek(this, total) ==
    [this EXCEPT !.byteOffset = Shr(total, 3), !.bitOffset = BitAnd(total, 7)]

\* buf[i] read as a 32-bit operand (0-based): undefined and holes give 0
BufAt(buf, i) == IF i < Len(buf) /\ buf[i + 1] >= 0 THEN buf[i + 1] ELSE 0
\* buf[i] = v (0-based): assigning past the length leaves holes (-1) between
BufSet(buf, i, v) ==
    [k \in 1..Max(Len(buf), i + 1) |->
        IF k = i + 1 THEN v ELSE IF k <= Len(buf) THEN buf[k] ELSE 0 - 1]

\* the while loop of encodeInt (0 <= n < 2^31, numBits <= 30)
RECURSIVE EncodeIntLoop(_, _, _, _, _)
EncodeIntLoop(buf, byteOffset, bitOffset, n, numBits) ==
    IF ~(numBits > 0) THEN [buf |-> buf, byteOffset |-> byteOffset, bitOffset |-> bitOffset]
    ELSE LET pushed == IF byteOffset >= Len(buf) THEN Append(buf, 0) ELSE buf
             remainingBitsInByte == 8 - bitOffset
             bitsToWrite == Min(numBits, remainingBitsInByte)
             bitsLeftInByte == remainingBitsInByte - bitsToWrite
             bitsLeftToWrite == numBits - bitsToWrite
             mask == Shl(Shl(1, bitsToWrite) - 1, bitsLeftToWrite)
             shiftedBitsToWrite == Shr(BitAnd(n, mask), bitsLeftToWrite)
             written == BufSet(pushed, byteOffset,
                               BitOr(BufAt(pushed, byteOffset),
                                     Shl(shiftedBitsToWrite, bitsLeftInByte)))
             bo == bitOffset + bitsToWrite
         IN  EncodeIntLoop(written,
                           IF bo = 8 THEN byteOffset + 1 ELSE byteOffset,
                           IF bo = 8 THEN 0 ELSE bo,
                           BitAnd(n, Shl(1, bitsLeftToWrite) - 1),
                           bitsLeftToWrite)

\* the end of encodeInt and encodeBigInt: store the cursor, raise end
AfterEncode(this, r) ==
    LET moved == [this EXCEPT !.buf = r.buf, !.byteOffset = r.byteOffset,
                              !.bitOffset = r.bitOffset]
    IN  IF totalBitOffset(moved) > moved.end
        THEN [moved EXCEPT !.end = totalBitOffset(moved)] ELSE moved

encodeInt(this, n, numBits) ==
    AfterEncode(this, EncodeIntLoop(this.buf, this.byteOffset, this.bitOffset, n, numBits))

\* the while loop of encodeBigInt
RECURSIVE EncodeBigIntLoop(_, _, _, _, _)
EncodeBigIntLoop(buf, byteOffset, bitOffset, n, numBits) ==
    IF ~(numBits > 0) THEN [buf |-> buf, byteOffset |-> byteOffset, bitOffset |-> bitOffset]
    ELSE LET pushed == IF byteOffset >= Len(buf) THEN Append(buf, 0) ELSE buf
             remainingBitsInByte == 8 - bitOffset
             bitsToWrite == Min(numBits, remainingBitsInByte)
             bitsLeftInByte == remainingBitsInByte - bitsToWrite
             bitsLeftToWrite == numBits - bitsToWrite
             mask == BigShl(BigDec(BigBit(bitsToWrite)), bitsLeftToWrite)
             shiftedBitsToWrite == BigToNumber(BigShr(BigAnd(n, mask), bitsLeftToWrite))
             written == BufSet(pushed, byteOffset,
                               BitOr(BufAt(pushed, byteOffset),
                                     Shl(shiftedBitsToWrite, bitsLeftInByte)))
             bo == bitOffset + bitsToWrite
         IN  EncodeBigIntLoop(written,
                              IF bo = 8 THEN byteOffset + 1 ELSE byteOffset,
                              IF bo = 8 THEN 0 ELSE bo,
                              BigAnd(n, BigDec(BigBit(bitsLeftToWrite))),
                              bitsLeftToWrite)

encodeBigInt(this, n, numBits) ==
    AfterEncode(this, EncodeBigIntLoop(this.buf, this.byteOffset, this.bitOffset, n, numBits))

\* the while loop of decodeInt: n is the number read so far
RECURSIVE DecodeIntLoop(_, _, _, _, _)
DecodeIntLoop(buf, byteOffset, bitOffset, numBits, n) ==
    IF ~(numBits > 0) THEN [n |-> n, byteOffset |-> byteOffset, bitOffset |-> bitOffset]
    ELSE LET remainingBitsInByte == 8 - bitOffset
             bitsToRead == Min(numBits, remainingBitsInByte)
             bitsLeftInByte == remainingBitsInByte - bitsToRead
             mask == Shl(Shl(1, bitsToRead) - 1, bitsLeftInByte)
             bits == Shr(BitAnd(BufAt(buf, byteOffset), mask), bitsLeftInByte)
             bo == bitOffset + bitsToRead
         IN  DecodeIntLoop(buf,
                           IF bo = 8 THEN byteOffset + 1 ELSE byteOffset,
                           IF bo = 8 THEN 0 ELSE bo,
                           numBits - bitsToRead,
                           BitOr(Shl(n, bitsToRead), bits))

\* fault: a decodeInt whose cursor stops at end
decodeIntStopAtEnd(this, numBits) ==
    LET r == DecodeIntLoop(this.buf, this.byteOffset, this.bitOffset, numBits, 0)
    IN  [n |-> r.n,
         this |-> IF r.byteOffset * 8 + r.bitOffset > this.end /\ totalBitOffset(this) <= this.end
                  THEN seek(this, this.end)
                  ELSE [this EXCEPT !.byteOffset = r.byteOffset, !.bitOffset = r.bitOffset]]

\* decodeInt(numBits), numBits <= 30: [n, this]
decodeInt(this, numBits) ==
    LET r == DecodeIntLoop(this.buf, this.byteOffset, this.bitOffset, numBits, 0)
    IN  [n |-> r.n,
         this |-> [this EXCEPT !.byteOffset = r.byteOffset, !.bitOffset = r.bitOffset]]

RECURSIVE DecodeBigIntLoop(_, _, _, _, _)
DecodeBigIntLoop(buf, byteOffset, bitOffset, numBits, n) ==
    IF ~(numBits > 0) THEN [n |-> n, byteOffset |-> byteOffset, bitOffset |-> bitOffset]
    ELSE LET remainingBitsInByte == 8 - bitOffset
             bitsToRead == Min(numBits, remainingBitsInByte)
             bitsLeftInByte == remainingBitsInByte - bitsToRead
             mask == Shl(Shl(1, bitsToRead) - 1, bitsLeftInByte)
             bits == BigFromNumber(Shr(BitAnd(BufAt(buf, byteOffset), mask), bitsLeftInByte))
             bo == bitOffset + bitsToRead
         IN  DecodeBigIntLoop(buf,
                              IF bo = 8 THEN byteOffset + 1 ELSE byteOffset,
                              IF bo = 8 THEN 0 ELSE bo,
                              numBits - bitsToRead,
                              BigOr(BigShl(n, bitsToRead), bits))

\* decodeBigInt(numBits): [n, this]
decodeBigInt(this, numBits) ==
    LET r == DecodeBigIntLoop(this.buf, this.byteOffset, this.bitOffset, numBits, BigZero)
    IN  [n |-> r.n,
         this |-> [this EXCEPT !.byteOffset = r.byteOffset, !.bitOffset = r.bitOffset]]

\* options?.alphabet ?? 'rfc4648'
AlphabetOrDefault(options) ==
    IF OptAlphabet(options).t = "string" THEN OptAlphabet(options).s ELSE NameRfc4648

\* fault: a toBase64 loop that emits the characters of the whole bytes of
\* the buffer, ceil(8 * buf.length / 6) of them
RECURSIVE ToBase64LoopWholeBytes(_, _, _, _, _)
ToBase64LoopWholeBytes(this, alphabet, i, numer, result) ==
    IF ~(6 * i < 8 * Len(this.buf)) THEN [val |-> result, this |-> this]
    ELSE LET d == decodeInt(this, 6)
         IN  ToBase64LoopWholeBytes(d.this, alphabet, i + 1, numer,
                                    result \o CharAt(alphabet, d.n))

\* the for loop of toBase64: numChars = end / 6 may be fractional, so the
\* loop runs while i < numChars, i.e. while 6 * i < end
RECURSIVE ToBase64Loop(_, _, _, _, _)
ToBase64Loop(this, alphabet, i, numer, result) ==
    IF ~(6 * i < numer) THEN [val |-> result, this |-> this]
    ELSE LET d == decodeInt(this, 6)
         IN  ToBase64Loop(d.this, alphabet, i + 1, numer, result \o CharAt(alphabet, d.n))

\* toBase64(options): [threw, val, this]
toBase64(this, options) ==
    LET alphabet == resolveAlphabet(AlphabetOrDefault(options))
    IN  IF alphabet.threw THEN [threw |-> TRUE, val |-> alphabet.val, this |-> this]
        ELSE LET overhang == this.end % 6
                 padded == IF overhang # 0 THEN encodeInt(this, 0, 6 - overhang) ELSE this
                 r == ToBase64Loop(seek(padded, 0), alphabet.val, 0, padded.end, << >>)
             IN  [threw |-> FALSE, val |-> Str(r.val), this |-> r.this]

\* fault: a fromBase64 loop that reads an unknown character as 0, as
\* base64Decode does
RECURSIVE FromBase64LoopLenient(_, _, _, _)
FromBase64LoopLenient(buf, str, i, lookup) ==
    IF i > Len(str) THEN Ok(buf)
    ELSE FromBase64LoopLenient(
             encodeInt(buf, IF str[i] \in DOMAIN lookup THEN lookup[str[i]] ELSE 0, 6),
             str, i + 1, lookup)

\* the for-of loop of fromBase64: throws at the first character that the
\* lookup map does not hold
RECURSIVE FromBase64Loop(_, _, _, _)
FromBase64Loop(buf, str, i, lookup) ==
    IF i > Len(str) THEN Ok(buf)
    ELSE IF str[i] \notin DOMAIN lookup THEN Throw("Invalid base64 character")
    ELSE FromBase64Loop(encodeInt(buf, lookup[str[i]], 6), str, i + 1, lookup)

\* BitBuffer.fromBase64(str, options): the new buffer, or a throw.
\* createLookupMap is called directly (no lookupCache); on the inherited
\* (non-string) member alphabet.split is not a function.
fromBase64(str, options) ==
    LET alphabet == resolveAlphabet(AlphabetOrDefault(options))
    IN  IF alphabet.threw THEN alphabet
        ELSE IF ~IsStr(alphabet.val) THEN Throw("TypeError")
        ELSE LET r == FromBase64Loop(NewBitBuffer, str, 1, createLookupMap(alphabet.val.s))
             IN  IF r.threw THEN r ELSE Ok(seek(r.val, 0))

-----------------------------------------------------------------------------
(* Numbers. A JS number is modelled by the 64 bits of its IEEE-754 double   *)
(* (bit 63 the sign, bits 62..52 the exponent field, bits 51..0 the         *)
(* fraction), wrapped as a value; every NaN is the one quiet NaN.           *)

\* 64-bit addition, subtraction and comparison of BigInts, on 16-bit limbs
Limb(a, j) == BitsToNat(a, 16 * j, 16)
\* the BigInt of four limb sums, carries passed upwards, modulo 2^64
FromLimbs(t0, t1, t2, t3) ==
    LET c1 == t1 + t0 \div 65536
        c2 == t2 + c1 \div 65536
        c3 == t3 + c2 \div 65536
        limbs == << t0 % 65536, c1 % 65536, c2 % 65536, c3 % 65536 >>
    IN  [i \in BigWidth |-> Shr(limbs[(i \div 16) + 1], i % 16) % 2]
BigAdd(a, b) ==
    FromLimbs(Limb(a, 0) + Limb(b, 0), Limb(a, 1) + Limb(b, 1),
              Limb(a, 2) + Limb(b, 2), Limb(a, 3) + Limb(b, 3))
BigNot(a) == [i \in BigWidth |-> 1 - a[i]]
BigSub(a, b) == BigInc(BigAdd(a, BigNot(b)))
BigLt(a, b) == \E i \in BigWidth : a[i] < b[i] /\ \A j \in BigWidth : j > i => a[j] = b[j]
\* BigInt(n) for an integer n of either sign, as 64 bits of two's complement
BigFromInt(n) ==
    IF n >= 0 THEN BigFromNumber(n)
    ELSE [i \in BigWidth |-> IF i <= 30 THEN Shr((n + 2147483647) + 1, i) % 2 ELSE 1]

Num(bits) == [t |-> "number", bits |-> bits]
\* a number that is only ever a small integer (a bit count, a digit count),
\* kept as the integer
SmallInt(n) == [t |-> "number", n |-> n]
\* the double with the given sign bit, exponent field and set fraction bits
Double(sign, expo, fracBits) ==
    [i \in BigWidth |-> IF i = 63 THEN sign
                        ELSE IF i >= 52 THEN Shr(expo, i - 52) % 2
                        ELSE IF i \in fracBits THEN 1 ELSE 0]
ExpoField(x) == BitsToNat(x, 52, 11)
FracField(x) == [i \in BigWidth |-> IF i < 52 THEN x[i] ELSE 0]
NaNBits == Double(0, 2047, {51})
IsNaNBits(x) == ExpoField(x) = 2047 /\ FracField(x) # BigZero
IsZeroBits(x) == ExpoField(x) = 0 /\ FracField(x) = BigZero
IsFiniteBits(x) == ExpoField(x) # 2047
\* isNaN(v) for a number v
isNaN(v) == IsNaNBits(v.bits)
\* a === b for numbers: NaN equals nothing, the two zeros equal each other
StrictEquals(a, b) ==
    /\ ~isNaN(a)
    /\ ~isNaN(b)
    /\ (a.bits = b.bits \/ (IsZeroBits(a.bits) /\ IsZeroBits(b.bits)))

\* DataView over 8 bytes, big-endian
\* view.setFloat64(0, x, false): the bytes of x
setFloat64(x) == [k \in 1..8 |-> BitsToNat(x.bits, 64 - 8 * k, 8)]
\* view.setBigUint64(0, w, false): the bytes of w modulo 2^64
setBigUint64(w) == [k \in 1..8 |-> BitsToNat(w, 64 - 8 * k, 8)]
getUint8(view, k) == view[k + 1]
getUint16(view, k) == view[k + 1] * 256 + view[k + 2]
getBigUint64(view) == [i \in BigWidth |-> Shr(view[8 - (i \div 8)], i % 8) % 2]
\* view.getFloat64(0, false): a RangeError when the view is shorter than 8
\* bytes; every NaN pattern reads as NaN
getFloat64(view) ==
    IF Len(view) < 8 THEN Throw("RangeError")
    ELSE LET w == getBigUint64(view)
         IN  Ok(Num(IF IsNaNBits(w) THEN NaNBits ELSE w))

\* binary.ts: floatToBytes, bytesToFloat
floatToBytes(value) == setFloat64(value)
bytesToFloat(bytes) == getFloat64(bytes)

-----------------------------------------------------------------------------
(* float.ts: IEEE-754 decomposition and the fixed-point conversion.         *)
(* Exponents are small integers and are kept as integers.                   *)

DEFAULT_EXP_BITS == 5
MIN_MANT_BITS == 8
MAX_MANT_BITS == 52

\* resolvePrecision: precision is undefined, a scheme object, or a number
resolvePrecision(precision) ==
    IF precision = Undefined THEN Ok([expBits |-> DEFAULT_EXP_BITS, mantBits |-> 22])
    ELSE IF precision.t = "object" THEN Ok(precision.scheme)
    ELSE IF precision.n < MIN_MANT_BITS \/ precision.n > MAX_MANT_BITS
    THEN Throw("Precision must be 8-52 bits")
    ELSE Ok([expBits |-> DEFAULT_EXP_BITS, mantBits |-> precision.n])

toFloat(x) ==
    LET floatView == setFloat64(x)
        byte0 == getUint8(floatView, 0)
    IN  [neg  |-> BitAnd(byte0, 128) # 0,
         exp  |-> Shr(BitAnd(getUint16(floatView, 0), 32752), 4) - 1023,
         mant |-> BigAnd(getBigUint64(floatView), BigDec(BigBit(52)))]

fromFloat(f) ==
    LET word == BigOr(BigOr(IF f.neg THEN BigBit(63) ELSE BigZero,
                            BigShl(BigFromInt(f.exp + 1023), 52)),
                      f.mant)
    IN  getFloat64(setBigUint64(word)).val

\* toFixedPoint(f, opts): opts.exp is undefined when options has no exp field
toFixedPoint(f, options) ==
    LET fExp == f.exp + 1
        exp == IF "exp" \in DOMAIN options THEN options.exp ELSE fExp
        downshiftBy == exp - fExp + 53 - options.mantBits
        roundUp == BigAnd(f.mant, BigShl(BigBit(0), downshiftBy - 1))
        shifted == BigShr(f.mant, downshiftBy)
        rounded == IF roundUp # BigZero THEN BigInc(shifted) ELSE shifted
        mant == BigOr(rounded, BigShl(BigBit(0), options.mantBits - 1 - (exp - fExp)))
    IN  IF fExp > exp THEN Throw("maxExp < fExp")
        ELSE Ok([neg |-> f.neg, exp |-> exp, mant |-> mant])

fromFixedPoint(f, mantBits) ==
    LET nonZeroBits == IF f.mant # BigZero THEN BigBitLength(f.mant) ELSE 0
        exp == f.exp - (mantBits - nonZeroBits) - 1
        masked == BigAnd(f.mant, BigDec(BigShl(BigBit(0), nonZeroBits - 1)))
        mant == BigShl(BigShl(masked, f.exp - exp), 52 - mantBits)
    IN  IF f.mant = BigZero THEN [neg |-> f.neg, exp |-> 0 - 1023, mant |-> BigZero]
        ELSE [neg |-> f.neg, exp |-> exp, mant |-> mant]

\* Math.max(...floats.map(({ exp }) => exp + 1)) for a non-empty array
RECURSIVE MaxExp(_)
MaxExp(floats) ==
    IF Len(floats) = 1 THEN floats[1].exp + 1
    ELSE Max(floats[1].exp + 1, MaxExp(Tail(floats)))

\* fixedPoints.forEach: the sign bit and the mantissa of each value
RECURSIVE EncodeEach(_, _, _)
EncodeEach(this, fixedPoints, mantBits) ==
    IF fixedPoints = << >> THEN this
    ELSE LET fp == Head(fixedPoints)
             signed == encodeInt(this, IF fp.neg THEN 1 ELSE 0, 1)
         IN  EncodeEach(encodeBigInt(signed, fp.mant, mantBits), Tail(fixedPoints), mantBits)

\* fault: the shared exponent is written before it is checked
encodeFixedPointsWriteFirst(this, vals, scheme) ==
    LET floats == [i \in 1..Len(vals) |-> toFloat(vals[i])]
        maxExp == MaxExp(floats)
        expToWrite == BitAnd(maxExp + Shl(1, scheme.expBits - 1), Shl(1, scheme.expBits) - 1)
        written == encodeInt(this, expToWrite, scheme.expBits)
        fixedPoints == [i \in 1..Len(vals) |->
                           toFixedPoint(floats[i], [mantBits |-> scheme.mantBits, exp |-> maxExp])]
    IN  IF maxExp >= Shl(1, scheme.expBits - 1)
        THEN [threw |-> TRUE, val |-> "maxExp too large", this |-> written]
        ELSE IF \E i \in 1..Len(vals) : fixedPoints[i].threw
        THEN [threw |-> TRUE, val |-> "maxExp < fExp", this |-> written]
        ELSE [threw |-> FALSE, val |-> Undefined,
              this |-> EncodeEach(written, [i \in 1..Len(vals) |-> fixedPoints[i].val],
                                  scheme.mantBits)]

\* encodeFixedPoints(vals, scheme): [threw, val, this], this the buffer as
\* the call leaves it
encodeFixedPoints(this, vals, scheme) ==
    LET floats == [i \in 1..Len(vals) |-> toFloat(vals[i])]
        maxExp == MaxExp(floats)
        expToWrite == BitAnd(maxExp + Shl(1, scheme.expBits - 1), Shl(1, scheme.expBits) - 1)
        written == encodeInt(this, expToWrite, scheme.expBits)
        fixedPoints == [i \in 1..Len(vals) |->
                           toFixedPoint(floats[i], [mantBits |-> scheme.mantBits, exp |-> maxExp])]
    IN  IF maxExp >= Shl(1, scheme.expBits - 1)
        THEN [threw |-> TRUE, val |-> "maxExp too large", this |-> this]
        ELSE IF \E i \in 1..Len(vals) : fixedPoints[i].threw
        THEN [threw |-> TRUE, val |-> "maxExp < fExp", this |-> written]
        ELSE [threw |-> FALSE, val |-> Undefined,
              this |-> EncodeEach(written, [i \in 1..Len(vals) |-> fixedPoints[i].val],
                                  scheme.mantBits)]

\* the for loop of decodeFixedPoints: [val, this]
RECURSIVE DecodeEach(_, _, _, _, _)
DecodeEach(this, i, exp, mantBits, result) ==
    IF ~(i > 0) THEN [val |-> result, this |-> this]
    ELSE LET s == decodeInt(this, 1)
             m == decodeBigInt(s.this, mantBits)
             fp == [neg |-> s.n = 1, exp |-> exp, mant |-> m.n]
         IN  DecodeEach(m.this, i - 1, exp, mantBits,
                        Append(result, fromFloat(fromFixedPoint(fp, mantBits))))

\* decodeFixedPoints(count, scheme): [val, this]
decodeFixedPoints(this, count, scheme) ==
    LET expRaw == decodeInt(this, scheme.expBits)
        exp == expRaw.n - Shl(1, scheme.expBits - 1)
    IN  DecodeEach(expRaw.this, count, exp, scheme.mantBits, << >>)

-----------------------------------------------------------------------------
(* Numbers as decimal text: the arithmetic, rounding, printing and parsing  *)
(* the text-mode converters use, computed on the bits. They are exact for   *)
(* finite numbers of magnitude below 2^30 / 1000 whose results are normal,  *)
(* up to three fraction digits and no exponent part: the numbers the        *)
(* specifications below draw.                                               *)

\* a finite double is Significand * 2^(Scale - 52)
Significand(x) == IF ExpoField(x) = 0 THEN FracField(x) ELSE BigOr(FracField(x), BigBit(52))
Scale(x) == IF ExpoField(x) = 0 THEN 0 - 1022 ELSE ExpoField(x) - 1023

\* Math.pow(10, k) for a small k >= 0
RECURSIVE Pow10(_)
Pow10(k) == IF k <= 0 THEN 1 ELSE 10 * Pow10(k - 1)

\* P * c for a BigInt P and an integer 0 <= c < 2^14, modulo 2^64
BigTimes(P, c) == FromLimbs(Limb(P, 0) * c, Limb(P, 1) * c, Limb(P, 2) * c, Limb(P, 3) * c)

\* the rounded significand: kept, one more when the bit below it is set and
\* either a lower bit is or kept is odd
RoundedSig(kept, guard, rest) == IF guard /\ (rest \/ kept[0] = 1) THEN BigInc(kept) ELSE kept
\* the double of a rounded significand sig * 2^(expo - 52), sig of 53 bits or,
\* after a carry, 2^53
PackDouble(sign, expo, sig) ==
    LET carry == sig[53]
    IN  IF expo + carry + 1023 >= 2047 THEN Double(sign, 2047, {})
        ELSE [i \in BigWidth |-> IF i = 63 THEN sign
                                 ELSE IF i >= 52 THEN Shr(expo + carry + 1023, i - 52) % 2
                                 ELSE IF carry = 1 THEN 0 ELSE sig[i]]
\* RoundToDouble for a P of L bits
RoundBits(sign, P, e2, sticky, L) ==
    PackDouble(sign, e2 + L - 1,
               RoundedSig(BigShr(P, L - 53),
                          L >= 54 /\ P[L - 54] = 1,
                          sticky \/ (L >= 55 /\ \E i \in 0..(L - 55) : P[i] = 1)))
\* the double nearest to P * 2^e2 (plus a little when sticky), ties to even,
\* for P # 0; sticky comes with a P of more than 53 bits
RoundToDouble(sign, P, e2, sticky) == RoundBits(sign, P, e2, sticky, BigBitLength(P))

\* the number with the given sign and integer magnitude n
IntToDouble(sign, n) ==
    IF n = 0 THEN Double(sign, 0, {}) ELSE RoundToDouble(sign, BigFromNumber(n), 0, FALSE)

\* x * c for a number x and c a power of ten
NumTimes(x, c) ==
    IF ~IsFiniteBits(x.bits) \/ IsZeroBits(x.bits) THEN x
    ELSE Num(RoundToDouble(x.bits[63], BigTimes(Significand(x.bits), c),
                           Scale(x.bits) - 52, FALSE))

\* long division: the next k bits of r / d after those produced, with the
\* remainder left
RECURSIVE QuotientBits(_, _, _, _)
QuotientBits(r, d, k, acc) ==
    IF k = 0 THEN [q |-> acc, rem |-> r]
    ELSE QuotientBits((2 * r) % d, d, k - 1, Append(acc, (2 * r) \div d))
\* the number of zero bits r / d (0 < r < d) has after the binary point
RECURSIVE LeadingZeros(_, _)
LeadingZeros(r, d) == IF 2 * r >= d THEN 0 ELSE 1 + LeadingZeros(2 * r, d)
RECURSIVE IntBitLength(_)
IntBitLength(n) == IF n = 0 THEN 0 ELSE 1 + IntBitLength(n \div 2)

\* the double of q0 + (the F bits fb.q after the binary point), all shifted
\* down by z more bits, with fb.rem what the division left
RatBits(sign, q0, F, z, fb) ==
    RoundToDouble(sign,
                  [i \in BigWidth |-> IF i = 63 THEN 0
                                      ELSE IF i >= F THEN Shr(q0, i - F) % 2
                                      ELSE fb.q[F - i]],
                  0 - (z + F), fb.rem # 0)
\* the double nearest to q0 + r0 / d, where r0 / d has z zero bits after the
\* binary point and F bits of the quotient are kept
RatShifted(sign, q0, F, z, r0, d) ==
    RatBits(sign, q0, F, z, QuotientBits(r0 * Pow2(z), d, F, << >>))
\* the double nearest to n / d for integers n >= 0 and d > 0
RatToDouble(sign, n, d) ==
    IF n = 0 THEN Double(sign, 0, {})
    ELSE RatShifted(sign, n \div d, 63 - IntBitLength(n \div d),
                    IF n \div d > 0 THEN 0 ELSE LeadingZeros(n % d, d), n % d, d)

\* the integer nearest to |x| * c, a tie going up (the bits of a finite x)
ScaledRound(x, c) ==
    LET P == BigTimes(Significand(x), c)
        down == 52 - Scale(x)
    IN  IF down <= 0 THEN BigToNumber(BigShl(P, 0 - down))
        ELSE BigToNumber(BigShr(P, down))
             + (IF down - 1 \in BigWidth THEN P[down - 1] ELSE 0)

\* Math.round(y): floor(y + 0.5), keeping the sign of a zero result
MathRound(y) ==
    IF ~IsFiniteBits(y.bits) \/ Scale(y.bits) >= 52 THEN y
    ELSE LET P == Significand(y.bits)
             down == 52 - Scale(y.bits)
             whole == BigToNumber(BigShr(P, down))
             half == down - 1 \in BigWidth /\ P[down - 1] = 1
             below == \E i \in BigWidth : i < down - 1 /\ P[i] = 1
             up == IF y.bits[63] = 0 THEN half ELSE half /\ below
         IN  Num(IntToDouble(y.bits[63], whole + (IF up THEN 1 ELSE 0)))

\* y / c for an integer-valued (or non-finite) number y and c a power of ten
NumOver(y, c) ==
    IF ~IsFiniteBits(y.bits) \/ IsZeroBits(y.bits) THEN y
    ELSE Num(RatToDouble(y.bits[63],
                         BigToNumber(BigShr(Significand(y.bits), 52 - Scale(y.bits))), c))

\* y >= 0
NumGeZero(y) == ~isNaN(y) /\ (y.bits[63] = 0 \/ IsZeroBits(y.bits))

DigitChars == << "0", "1", "2", "3", "4", "5", "6", "7", "8", "9" >>
IsDigit(c) == \E i \in 1..10 : DigitChars[i] = c
DigitValue(c) == (CHOOSE i \in 1..10 : DigitChars[i] = c) - 1
\* the decimal digits of n >= 0
RECURSIVE DigitsOf(_)
DigitsOf(n) ==
    IF n < 10 THEN << DigitChars[n + 1] >>
    ELSE Append(DigitsOf(n \div 10), DigitChars[(n % 10) + 1])
\* n printed with k digits after the point
Decimal(n, k) ==
    LET ds == DigitsOf(n)
        padded == [i \in 1..(k + 1 - Len(ds)) |-> "0"] \o ds
    IN  IF k = 0 THEN ds
        ELSE SubSeq(padded, 1, Len(padded) - k) \o << "." >>
             \o SubSeq(padded, Len(padded) - k + 1, Len(padded))

TextNaN == << "N", "a", "N" >>
TextInfinity == << "I", "n", "f", "i", "n", "i", "t", "y" >>
Minus(x) == IF x.bits[63] = 1 THEN << "-" >> ELSE << >>

\* x.toFixed(digits): a RangeError outside 0..100
toFixed(x, digits) ==
    IF digits < 0 \/ digits > 100 THEN Throw("RangeError")
    ELSE IF isNaN(x) THEN Ok(Str(TextNaN))
    ELSE IF ~IsFiniteBits(x.bits) THEN Ok(Str(Minus(x) \o TextInfinity))
    ELSE Ok(Str((IF IsZeroBits(x.bits) THEN << >> ELSE Minus(x))
                \o Decimal(ScaledRound(x.bits, Pow10(digits)), digits)))

\* the most fraction digits toString prints for the numbers drawn
MaxFractionDigits == 3
\* the least number of a non-empty set of numbers
Least(S) == CHOOSE j \in S : \A i \in S : j <= i
\* x printed with k fraction digits
Printed(x, k) == Str(Minus(x) \o Decimal(ScaledRound(x.bits, Pow10(k)), k))
\* x.toString(): the shortest decimal that reads back as x
toString(x) ==
    IF isNaN(x) THEN Str(TextNaN)
    ELSE IF ~IsFiniteBits(x.bits) THEN Str(Minus(x) \o TextInfinity)
    ELSE IF IsZeroBits(x.bits) THEN Str(<< "0" >>)
    ELSE Printed(x, Least({k \in 0..MaxFractionDigits :
                              RatToDouble(x.bits[63], ScaledRound(x.bits, Pow10(k)), Pow10(k))
                                  = x.bits}))

\* the length of the run of digits of s that starts at index i
RECURSIVE DigitRun(_, _)
DigitRun(s, i) == IF i <= Len(s) /\ IsDigit(s[i]) THEN 1 + DigitRun(s, i + 1) ELSE 0
\* the number the digits s[i] .. s[i + n - 1] spell, after acc
RECURSIVE DigitsValue(_, _, _, _)
DigitsValue(s, i, n, acc) ==
    IF n = 0 THEN acc ELSE DigitsValue(s, i + 1, n - 1, 10 * acc + DigitValue(s[i]))
\* leading white space removed
RECURSIVE TrimStart(_)
TrimStart(s) == IF Len(s) > 0 /\ s[1] = " " THEN TrimStart(Tail(s)) ELSE s

\* parseFloat(s): the longest prefix that is a decimal literal
parseFloat(s) ==
    LET t == TrimStart(s)
        signed == Len(t) >= 1 /\ (t[1] = "-" \/ t[1] = "+")
        sign == IF Len(t) >= 1 /\ t[1] = "-" THEN 1 ELSE 0
        u == IF signed THEN Tail(t) ELSE t
        n1 == DigitRun(u, 1)
        n2 == IF Len(u) > n1 /\ u[n1 + 1] = "." THEN DigitRun(u, n1 + 2) ELSE 0
    IN  IF Len(u) >= 8 /\ SubSeq(u, 1, 8) = TextInfinity THEN Num(Double(sign, 2047, {}))
        ELSE IF n1 + n2 = 0 THEN Num(NaNBits)
        ELSE Num(RatToDouble(sign,
                             DigitsValue(u, n1 + 2, n2, DigitsValue(u, 1, n1, 0)),
                             Pow10(n2)))

-----------------------------------------------------------------------------
(* float.ts: the converter factories. A Param is the record of the values   *)
(* its encode and decode closures capture; encode returns [threw, val] and  *)
(* decode [threw, val, cache], cache the lookupCache as the call leaves it. *)

\* o.name, undefined when the options object has no such property
Prop(o, name) == IF name \in DOMAIN o THEN o[name] ELSE Undefined
\* alphabet ? { alphabet } : undefined
OptsOf(alphabet) == IF Truthy(alphabet) THEN Options(alphabet) ELSE Undefined
\* fault: the try without its catch, the error leaves the function
NoCatch(r, fallback) == r
\* try { r } catch { return fallback }
Catch(r, fallback) == IF r.threw THEN [r EXCEPT !.threw = FALSE, !.val = fallback] ELSE r

\* parsePrecisionString: /^(\d+)\+(\d+)$/, parseInt of both groups
parsePrecisionString(s) ==
    LET n1 == DigitRun(s, 1)
        n2 == DigitRun(s, n1 + 2)
    IN  IF n1 >= 1 /\ Len(s) > n1 /\ s[n1 + 1] = "+" /\ n2 >= 1 /\ n1 + 1 + n2 = Len(s)
        THEN Ok([exp |-> DigitsValue(s, 1, n1, 0), mant |-> DigitsValue(s, n1 + 2, n2, 0)])
        ELSE Throw("Invalid precision format")

createLosslessBase64Param(defaultValue, alphabet) ==
    [kind |-> "lossless", defaultValue |-> defaultValue, opts |-> OptsOf(alphabet)]
createLossyBase64Param(defaultValue, scheme, alphabet) ==
    [kind |-> "lossy", defaultValue |-> defaultValue, scheme |-> scheme,
     opts |-> OptsOf(alphabet)]
createFullStringParam(defaultValue) ==
    [kind |-> "fullString", defaultValue |-> defaultValue]
createTruncatedStringParam(defaultValue, decimals) ==
    [kind |-> "truncatedString", defaultValue |-> defaultValue, decimals |-> decimals,
     multiplier |-> Pow10(decimals)]

\* floatParam(optsOrDefault): the Param, or the throw of the validation
floatParam(optsOrDefault) ==
    LET o == IF optsOrDefault.t = "number" THEN [default |-> optsOrDefault] ELSE optsOrDefault
        defaultValue == IF Prop(o, "default") = Undefined THEN Num(Double(0, 0, {}))
                        ELSE o.default
        encoding == IF "encoding" \in DOMAIN o THEN o.encoding ELSE "base64"
        decimals == Prop(o, "decimals")
        exp == Prop(o, "exp")
        mant == Prop(o, "mant")
        precision == Prop(o, "precision")
        alphabet == Prop(o, "alphabet")
        hasExpMant == exp # Undefined \/ mant # Undefined
        hasPrecision == precision # Undefined
        parsed == parsePrecisionString(precision.s)
    IN  IF encoding = "string" /\ (hasExpMant \/ hasPrecision)
        THEN Throw("exp/mant/precision options are only valid with encoding: base64")
        ELSE IF encoding = "base64"
        THEN IF decimals # Undefined
             THEN Throw("decimals option is only valid with encoding: string")
             ELSE IF hasExpMant /\ hasPrecision
             THEN Throw("Cannot specify both exp/mant and precision")
             ELSE IF hasExpMant
             THEN IF exp = Undefined \/ mant = Undefined
                  THEN Throw("Both exp and mant must be specified together")
                  ELSE Ok(createLossyBase64Param(defaultValue,
                              [expBits |-> exp.n, mantBits |-> mant.n], alphabet))
             ELSE IF hasPrecision
             THEN IF parsed.threw THEN parsed
                  ELSE Ok(createLossyBase64Param(defaultValue,
                              [expBits |-> parsed.val.exp, mantBits |-> parsed.val.mant],
                              alphabet))
             ELSE Ok(createLosslessBase64Param(defaultValue, alphabet))
        ELSE IF decimals # Undefined
        THEN Ok(createTruncatedStringParam(defaultValue, decimals.n))
        ELSE Ok(createFullStringParam(defaultValue))

createLosslessBase64Param_encode(p, value) ==
    IF StrictEquals(value, p.defaultValue) THEN Ok(Undefined)
    ELSE base64Encode(floatToBytes(value), p.opts)

\* a call's outcome r with the lookupCache as the call leaves it
WithCache(r, cache) == [threw |-> r.threw, val |-> r.val, cache |-> cache]
\* bytesToFloat(bytes) for the outcome of base64Decode
FloatOfBytes(bytes) ==
    IF bytes.threw THEN bytes ELSE WithCache(bytesToFloat(bytes.val), bytes.cache)
createLosslessBase64Param_decode(p, encoded, cache) ==
    IF encoded = Undefined \/ encoded = Str(<< >>)
    THEN [threw |-> FALSE, val |-> p.defaultValue, cache |-> cache]
    ELSE Catch(FloatOfBytes(base64Decode(encoded.s, p.opts, cache)), p.defaultValue)

\* buf.toBase64(options) for the outcome of encodeFixedPoints on a new buffer
ToBase64Of(buf, options) == IF buf.threw THEN Throw(buf.val) ELSE toBase64(buf.this, options)
createLossyBase64Param_encode(p, value) ==
    IF StrictEquals(value, p.defaultValue) THEN Ok(Undefined)
    ELSE ToBase64Of(encodeFixedPoints(NewBitBuffer, << value >>, p.scheme), p.opts)

\* buf.decodeFixedPoints(count, scheme) for the outcome of BitBuffer.fromBase64
FixedPointsOf(buf, count, scheme) ==
    IF buf.threw THEN buf ELSE Ok(decodeFixedPoints(buf.val, count, scheme).val)
\* const [value] = r
FirstOf(r) == IF r.threw THEN r ELSE Ok(r.val[1])
createLossyBase64Param_decode(p, encoded, cache) ==
    IF encoded = Undefined \/ encoded = Str(<< >>)
    THEN [threw |-> FALSE, val |-> p.defaultValue, cache |-> cache]
    ELSE Catch(WithCache(FirstOf(FixedPointsOf(fromBase64(encoded.s, p.opts), 1, p.scheme)),
                         cache),
               p.defaultValue)

createFullStringParam_encode(p, value) ==
    IF StrictEquals(value, p.defaultValue) THEN Ok(Undefined)
    ELSE Ok(toString(value))

\* isNaN(parsed) ? defaultValue : parsed
ParsedOr(parsed, defaultValue) == IF isNaN(parsed) THEN defaultValue ELSE parsed
\* decode of both text converters
createFullStringParam_decode(p, encoded, cache) ==
    IF encoded = Undefined \/ encoded = Str(<< >>)
    THEN [threw |-> FALSE, val |-> p.defaultValue, cache |-> cache]
    ELSE [threw |-> FALSE, val |-> ParsedOr(parseFloat(encoded.s), p.defaultValue),
          cache |-> cache]

\* Math.round(value * multiplier) / multiplier
Truncated(value, multiplier) == NumOver(MathRound(NumTimes(value, multiplier)), multiplier)

createTruncatedStringParam_encode(p, value) ==
    IF StrictEquals(value, p.defaultValue) THEN Ok(Undefined)
    ELSE toFixed(Truncated(value, p.multiplier), p.decimals)

\* a Point value
Point(x, y) == [t |-> "point", x |-> x, y |-> y]

\* pointParam(opts): the Param, or the throw of resolvePrecision
pointParam(o) ==
    LET encoding == IF "encoding" \in DOMAIN o THEN o.encoding ELSE "base64"
        decimals == IF Prop(o, "decimals") = Undefined THEN 2 ELSE o.decimals.n
        defaultPoint == IF Prop(o, "default") = Undefined THEN Null ELSE o.default
        scheme == resolvePrecision(Prop(o, "precision"))
    IN  IF scheme.threw THEN scheme
        ELSE Ok([kind |-> "point", encoding |-> encoding, decimals |-> decimals,
                 scheme |-> scheme.val, defaultPoint |-> defaultPoint,
                 multiplier |-> Pow10(decimals),
                 base64Opts |-> OptsOf(Prop(o, "alphabet"))])

\* `${xStr}${delimiter}${yStr}`, or the throw of a toFixed
PointText(xStr, yStr, spaced) ==
    IF xStr.threw THEN xStr
    ELSE IF yStr.threw THEN yStr
    ELSE Ok(Str(xStr.val.s \o (IF spaced THEN << " " >> ELSE << >>) \o yStr.val.s))
\* the text of the rounded coordinates: a space only before a y that is >= 0
TruncatedText(xTrunc, yTrunc, decimals) ==
    PointText(toFixed(xTrunc, decimals), toFixed(yTrunc, decimals), NumGeZero(yTrunc))
pointParam_encode(p, point) ==
    IF point = Null THEN Ok(Undefined)
    ELSE IF /\ p.defaultPoint # Null
            /\ StrictEquals(point.x, p.defaultPoint.x)
            /\ StrictEquals(point.y, p.defaultPoint.y)
    THEN Ok(Undefined)
    ELSE IF p.encoding = "string"
    THEN TruncatedText(Truncated(point.x, p.multiplier), Truncated(point.y, p.multiplier),
                       p.decimals)
    ELSE ToBase64Of(encodeFixedPoints(NewBitBuffer, << point.x, point.y >>, p.scheme),
                    p.base64Opts)

\* encoded.indexOf(c, from): 0-based, -1 when absent
IndexOf(s, c, from) ==
    LET at == {i \in (from + 1)..Len(s) : s[i] = c}
    IN  IF at = {} THEN 0 - 1 ELSE (CHOOSE i \in at : \A j \in at : i <= j) - 1

\* the two texts of the coordinates: the parts around the only space or,
\* with no space, before and from the first minus sign after the first
\* character; undefined where decode returns defaultPoint at once
SplitPoint(s) ==
    LET spaces == {i \in 1..Len(s) : s[i] = " "}
        sp == CHOOSE i \in spaces : TRUE
        minusIdx == IndexOf(s, "-", IF Len(s) >= 1 /\ s[1] = "-" THEN 1 ELSE 0)
    IN  IF spaces # {}
        THEN IF Cardinality(spaces) # 1 THEN Undefined
             ELSE << SubSeq(s, 1, sp - 1), SubSeq(s, sp + 1, Len(s)) >>
        ELSE IF minusIdx = 0 - 1 THEN Undefined
             ELSE << SubSeq(s, 1, minusIdx), SubSeq(s, minusIdx + 1, Len(s)) >>
\* { x, y }, or undefined for the return of defaultPoint
PointOrUndefined(x, y) == IF isNaN(x) \/ isNaN(y) THEN Undefined ELSE Point(x, y)
PointOfParts(parts) ==
    IF parts = Undefined THEN Undefined
    ELSE PointOrUndefined(parseFloat(parts[1]), parseFloat(parts[2]))
\* the string branch of pointParam's decode: the point, or undefined for the
\* returns of defaultPoint
PointFromText(s) == PointOfParts(SplitPoint(s))

\* point ?? defaultPoint for the outcome of PointFromText
PointOr(point, defaultPoint) == IF point = Undefined THEN defaultPoint ELSE point
\* const [x, y] = r; { x, y }
PointOf(r) == IF r.threw THEN r ELSE Ok(Point(r.val[1], r.val[2]))
pointParam_decode(p, encoded, cache) ==
    IF encoded = Undefined \/ encoded = Str(<< >>)
    THEN [threw |-> FALSE, val |-> p.defaultPoint, cache |-> cache]
    ELSE IF p.encoding = "string"
    THEN [threw |-> FALSE, val |-> PointOr(PointFromText(encoded.s), p.defaultPoint),
          cache |-> cache]
    ELSE Catch(WithCache(PointOf(FixedPointsOf(fromBase64(encoded.s, p.base64Opts), 2,
                                               p.scheme)),
                         cache),
               p.defaultPoint)

\* param.encode(value) and param.decode(encoded) for a Param of any factory
\* binary.ts binaryParam(options): toBytes and fromBytes are the caller's;
\* here a value is an array of byte values, toBytes is
\* (nums) => new Uint8Array(nums) and fromBytes is Array.from
Array(items) == [t |-> "array", items |-> items]
binaryParam(o) == Ok([kind |-> "binary", encodeOpts |-> OptsOf(Prop(o, "alphabet"))])
binaryParam_encode(p, value) ==
    IF value = Null THEN Ok(Undefined)
    ELSE IF Len(value.items) = 0 THEN Ok(Undefined)
    ELSE base64Encode(value.items, p.encodeOpts)
\* fromBytes(bytes) for the outcome of base64Decode
ArrayOfBytes(bytes) == IF bytes.threw THEN bytes ELSE [bytes EXCEPT !.val = Array(bytes.val)]
binaryParam_decode(p, encoded, cache) ==
    IF encoded = Undefined \/ encoded = Str(<< >>)
    THEN [threw |-> FALSE, val |-> Null, cache |-> cache]
    ELSE Catch(ArrayOfBytes(base64Decode(encoded.s, p.encodeOpts, cache)), Null)

encode(p, value) ==
    CASE p.kind = "lossless" -> createLosslessBase64Param_encode(p, value)
      [] p.kind = "lossy" -> createLossyBase64Param_encode(p, value)
      [] p.kind = "fullString" -> createFullStringParam_encode(p, value)
      [] p.kind = "truncatedString" -> createTruncatedStringParam_encode(p, value)
      [] p.kind = "point" -> pointParam_encode(p, value)
      [] p.kind = "binary" -> binaryParam_encode(p, value)

decode(p, encoded, cache) ==
    CASE p.kind = "lossless" -> createLosslessBase64Param_decode(p, encoded, cache)
      [] p.kind = "lossy" -> createLossyBase64Param_decode(p, encoded, cache)
      [] p.kind \in {"fullString", "truncatedString"} ->
             createFullStringParam_decode(p, encoded, cache)
      [] p.kind = "point" -> pointParam_decode(p, encoded, cache)
      [] p.kind = "binary" -> binaryParam_decode(p, encoded, cache)

-----------------------------------------------------------------------------
(* The state before any operation, shared by the specifications below.      *)

InitIdle ==
    /\ op = "init"
    /\ arg = Undefined
    /\ ret = Undefined
    /\ conv = Undefined
    /\ wbuf = NewBitBuffer
    /\ rbuf = NewBitBuffer
    /\ fields = << >>
    /\ text = Undefined
    /\ opts = Undefined
    /\ nread = 0 - 1
    /\ lookupCache = << >>
    /\ NoPage

\* the alphabet options a caller may give: none, a preset name, the custom
\* 64-character string
AlphabetOptions ==
    {Undefined, Options(Str(NameRfc4648)), Options(Str(NameSortable)), Options(Str(Custom))}

-----------------------------------------------------------------------------
(* SpecAlphabet: validateAlphabet and resolveAlphabet on candidate strings. *)

ReplaceAt(s, p, c) == [s EXCEPT ![p] = c]
MutatedPositions == {1, 2, 32, 63, 64}
ReplacementChars == {"A", "z", "0", "_", "+", "/", "=", " "}

AlphabetInputs ==
    {NameRfc4648, NameSortable, Rfc4648, Sortable, Custom,
     << >>, << "i","n","v","a","l","i","d" >>, << "a","b","c" >>}
    \cup ObjectPrototypeKeys
    \cup {SubSeq(b, 1, 63) : b \in {Rfc4648, Sortable, Custom}}
    \cup {b \o << c >> : b \in {Rfc4648, Sortable, Custom}, c \in {"X", "+"}}
    \cup {ReplaceAt(b, p, c) : b \in {Rfc4648, Sortable, Custom},
                               p \in MutatedPositions, c \in ReplacementChars}

ValidateAlphabet(a) ==
    /\ op' = "validateAlphabet"
    /\ arg' = Str(a)
    /\ ret' = validateAlphabet(a)
    /\ UNCHANGED <<page, conv, wbuf, rbuf, fields, text, opts, nread, lookupCache>>

ResolveAlphabet(a) ==
    /\ op' = "resolveAlphabet"
    /\ arg' = Str(a)
    /\ ret' = resolveAlphabet(a)
    /\ UNCHANGED <<page, conv, wbuf, rbuf, fields, text, opts, nread, lookupCache>>

NextAlphabet ==
    \/ \E a \in AlphabetInputs : ValidateAlphabet(a)
    \/ \E a \in AlphabetInputs : ResolveAlphabet(a)

SpecAlphabet == InitIdle /\ [][NextAlphabet]_vars

\* what the specification says an invalid alphabet is, stated without the code
InvalidAlphabet(a) ==
    \/ Len(a) # 64
    \/ Cardinality(Range(a)) # Len(a)
    \/ \E i \in 1..Len(a) : a[i] \notin UrlSafeChar

(* C7: resolveAlphabet returns the preset for the names 'rfc4648' and       *)
(* 'sortable'; for every other string it throws when the string is not 64  *)
(* characters long, repeats a character or holds a character outside       *)
(* [A-Za-z0-9-_], and returns the string unchanged otherwise.              *)
C7_ResolveAlphabetAsSpecified ==
    op = "resolveAlphabet" =>
        IF arg.s = NameRfc4648 THEN ret = Ok(Str(Rfc4648))
        ELSE IF arg.s = NameSortable THEN ret = Ok(Str(Sortable))
        ELSE IF InvalidAlphabet(arg.s) THEN ret.threw
        ELSE ret = Ok(Str(arg.s))

-----------------------------------------------------------------------------
(* SpecBase64: base64Encode of a byte sequence, then base64Decode of the    *)
(* string it returned, under the same options.                              *)

MaxBytes == 4
ByteValues == {0, 60, 165, 255}
ByteSeqs == UNION {[1..n -> ByteValues] : n \in 0..MaxBytes}

\* the input is drawn in the initial state: arg holds the bytes and the options
InitBase64 ==
    /\ op = "init"
    /\ arg \in [bytes : ByteSeqs, options : AlphabetOptions]
    /\ ret = Undefined
    /\ conv = Undefined
    /\ wbuf = NewBitBuffer
    /\ rbuf = NewBitBuffer
    /\ fields = << >>
    /\ text = Undefined
    /\ opts = Undefined
    /\ nread = 0 - 1
    /\ lookupCache = << >>
    /\ NoPage

Base64Encode ==
    /\ op = "init"
    /\ op' = "base64Encode"
    /\ ret' = base64Encode(arg.bytes, arg.options)
    /\ UNCHANGED <<page, arg, conv, wbuf, rbuf, fields, text, opts, nread, lookupCache>>

\* decodes the string the last base64Encode returned; arg keeps the bytes
\* that were encoded
Base64Decode ==
    /\ op = "base64Encode"
    /\ ~ret.threw
    /\ LET r == base64Decode(ret.val.s, arg.options, lookupCache)
       IN  /\ op' = "base64Decode"
           /\ arg' = [bytes |-> arg.bytes, options |-> arg.options, str |-> ret.val.s]
           /\ ret' = [threw |-> r.threw, val |-> r.val]
           /\ lookupCache' = r.cache
    /\ UNCHANGED <<page, conv, wbuf, rbuf, fields, text, opts, nread>>

NextBase64 ==
    \/ Base64Encode
    \/ Base64Decode

SpecBase64 == InitBase64 /\ [][NextBase64]_vars

\* ceil(a / b)
CeilDiv(a, b) == (a + b - 1) \div b

(* C6: for every valid alphabet and every byte sequence b,                  *)
(* base64Decode(base64Encode(b, A), A) = b; the empty sequence encodes to   *)
(* the empty string, and a final group of 1 or 2 bytes encodes to 2 or 3    *)
(* characters without padding (so n bytes give ceil(8n/6) characters, all   *)
(* of the alphabet).                                                        *)
C6_Base64RoundTrip ==
    /\ op = "base64Encode" =>
          /\ ~ret.threw
          /\ Len(ret.val.s) = CeilDiv(8 * Len(arg.bytes), 6)
          /\ (Len(arg.bytes) = 0 => ret.val.s = << >>)
          /\ (Len(arg.bytes) % 3 = 1 => Len(ret.val.s) % 4 = 2)
          /\ (Len(arg.bytes) % 3 = 2 => Len(ret.val.s) % 4 = 3)
          /\ Range(ret.val.s) \subseteq UrlSafeChar
    /\ op = "base64Decode" => (~ret.threw /\ ret.val = arg.bytes)

\* a decode of the encoding of a sequence that ends in a partial group,
\* under a custom alphabet
C6_Witness ==
    /\ op = "base64Decode"
    /\ Len(arg.bytes) = 4
    /\ arg.bytes[4] = 165
    /\ arg.options = Options(Str(Custom))
    /\ Len(arg.str) = 6

\* String comparison (a < b, Array.prototype.sort's default order) compares
\* UTF-16 code units; these are the code units of the URL-safe characters.
UpperCase ==
    << "A","B","C","D","E","F","G","H","I","J","K","L","M",
       "N","O","P","Q","R","S","T","U","V","W","X","Y","Z" >>
LowerCase ==
    << "a","b","c","d","e","f","g","h","i","j","k","l","m",
       "n","o","p","q","r","s","t","u","v","w","x","y","z" >>
DecimalDigits == << "0","1","2","3","4","5","6","7","8","9" >>
PositionIn(s, c) == CHOOSE i \in 1..Len(s) : s[i] = c
CodeUnit(c) ==
    IF c = "-" THEN 45
    ELSE IF c = "_" THEN 95
    ELSE IF c \in Range(DecimalDigits) THEN 47 + PositionIn(DecimalDigits, c)
    ELSE IF c \in Range(UpperCase) THEN 64 + PositionIn(UpperCase, c)
    ELSE 96 + PositionIn(LowerCase, c)

\* a < b for two strings of URL-safe characters
RECURSIVE StringLess(_, _)
StringLess(a, b) ==
    IF b = << >> THEN FALSE
    ELSE IF a = << >> THEN TRUE
    ELSE IF a[1] # b[1] THEN CodeUnit(a[1]) < CodeUnit(b[1])
    ELSE StringLess(Tail(a), Tail(b))

\* a < b as big-endian unsigned integers, for byte sequences of equal length
RECURSIVE BytesLess(_, _)
BytesLess(a, b) ==
    IF a = << >> THEN FALSE
    ELSE IF a[1] # b[1] THEN a[1] < b[1]
    ELSE BytesLess(Tail(a), Tail(b))

\* every input with its base64Encode(bytes, { alphabet: 'sortable' })
SortableEncoding ==
    {[bytes |-> bytes, str |-> base64Encode(bytes, Options(Str(NameSortable))).val.s] :
        bytes \in ByteSeqs}
OrderKept(str, bytes, otherStr, other) ==
    StringLess(str, otherStr) <=> BytesLess(bytes, other)

(* C14: under the sortable alphabet, for byte sequences a and b of equal    *)
(* length, base64Encode(a) sorts before base64Encode(b) as a string exactly *)
(* when a is below b as a big-endian unsigned integer; under rfc4648 (also  *)
(* the default) the order is not kept: the encoding of <<255>> sorts before *)
(* the encoding of <<165>>.                                                 *)
C14_SortableKeepsOrder ==
    /\ (op = "base64Encode" /\ arg.options = Options(Str(NameSortable))) =>
          \A b \in SortableEncoding :
              Len(b.bytes) = Len(arg.bytes) => OrderKept(ret.val.s, arg.bytes, b.str, b.bytes)
    /\ (op = "base64Encode" /\ arg.options \in {Undefined, Options(Str(NameRfc4648))}
           /\ arg.bytes = <<165>>) =>
          ~OrderKept(ret.val.s, arg.bytes, base64Encode(<<255>>, arg.options).val.s, <<255>>)

\* a 4-byte sequence encoded under sortable that has both smaller and larger
\* sequences differing from it in the last (partial-group) byte only
C14_Witness ==
    /\ op = "base64Encode"
    /\ arg.options = Options(Str(NameSortable))
    /\ arg.bytes = <<165, 0, 255, 60>>
    /\ StringLess(ret.val.s, base64Encode(<<165, 0, 255, 165>>, arg.options).val.s)
    /\ StringLess(base64Encode(<<165, 0, 255, 0>>, arg.options).val.s, ret.val.s)

-----------------------------------------------------------------------------
(* SpecBitBuffer: fields are written to a fresh BitBuffer (wbuf), toBase64  *)
(* serializes it, BitBuffer.fromBase64 makes a second buffer (rbuf) from    *)
(* the string, and the fields are decoded from it in the order and with the *)
(* widths they were written. From the initial state BitBuffer.fromBase64    *)
(* may also be called on an arbitrary string.                               *)

MaxFields == 2
MaxStrLen == 3

IntWidths == {0, 6, 20, 26, 30}
BigWidths == {52}
\* 0b1010...: every second bit of a w-bit field set, from the top bit down
RECURSIVE Alternating(_)
Alternating(w) == IF w <= 0 THEN 0 ELSE IF w = 1 THEN 1 ELSE Pow2(w - 1) + Alternating(w - 2)
IntValues(w) == {Pow2(w) - 1, Alternating(w)}
BigValues(w) == {BigDec(BigBit(w)),
                 [i \in BigWidth |-> IF i < w /\ (w - 1 - i) % 2 = 0 THEN 1 ELSE 0]}

\* strings over a few characters, some of them in no alphabet
StringChars == {"A", "z", "_", "+", "=", " "}
Strings == UNION {[1..n -> StringChars] : n \in 0..MaxStrLen}

\* the writer's phase: nothing but writes so far
Writing == op \in {"init", "encodeInt", "encodeBigInt"}
\* more fields may be written until the buffer is serialized
CanWrite == Writing /\ Len(fields) < MaxFields

EncodeInt(n, w) ==
    /\ op' = "encodeInt"
    /\ arg' = [n |-> n, w |-> w]
    /\ wbuf' = encodeInt(wbuf, n, w)
    /\ ret' = Undefined
    /\ fields' = Append(fields, [big |-> FALSE, n |-> n, w |-> w])
    /\ UNCHANGED <<page, conv, rbuf, text, opts, nread, lookupCache>>

EncodeBigInt(n, w) ==
    /\ op' = "encodeBigInt"
    /\ arg' = [n |-> n, w |-> w]
    /\ wbuf' = encodeBigInt(wbuf, n, w)
    /\ ret' = Undefined
    /\ fields' = Append(fields, [big |-> TRUE, n |-> n, w |-> w])
    /\ UNCHANGED <<page, conv, rbuf, text, opts, nread, lookupCache>>

ToBase64(options) ==
    /\ LET r == toBase64(wbuf, options)
       IN  /\ op' = "toBase64"
           /\ arg' = options
           /\ ret' = [threw |-> r.threw, val |-> r.val]
           /\ wbuf' = r.this
           /\ text' = IF r.threw THEN text ELSE r.val
           /\ opts' = options
    /\ UNCHANGED <<page, conv, rbuf, fields, nread, lookupCache>>

\* BitBuffer.fromBase64(text, opts): the reader of what toBase64 returned
FromBase64 ==
    /\ op = "toBase64"
    /\ text # Undefined
    /\ LET r == fromBase64(text.s, opts)
       IN  /\ op' = "fromBase64"
           /\ arg' = [str |-> text.s, options |-> opts]
           /\ ret' = r
           /\ rbuf' = IF r.threw THEN rbuf ELSE r.val
           /\ nread' = IF r.threw THEN nread ELSE 0
    /\ UNCHANGED <<page, conv, wbuf, fields, text, opts, lookupCache>>

\* BitBuffer.fromBase64(str, options) on an arbitrary string; the buffer it
\* returns is in ret
FromBase64Str(str, options) ==
    /\ op' = "fromBase64"
    /\ arg' = [str |-> str, options |-> options]
    /\ ret' = fromBase64(str, options)
    /\ UNCHANGED <<page, conv, wbuf, rbuf, fields, text, opts, nread, lookupCache>>

\* rbuf.decodeInt(w) for the next field, which was written by encodeInt
DecodeInt ==
    /\ nread >= 0
    /\ nread < Len(fields)
    /\ ~fields[nread + 1].big
    /\ LET r == decodeInt(rbuf, fields[nread + 1].w)
       IN  /\ op' = "decodeInt"
           /\ arg' = [w |-> fields[nread + 1].w]
           /\ ret' = r.n
           /\ rbuf' = r.this
    /\ nread' = nread + 1
    /\ UNCHANGED <<page, conv, wbuf, fields, text, opts, lookupCache>>

\* rbuf.decodeBigInt(w) for the next field, which was written by encodeBigInt
DecodeBigInt ==
    /\ nread >= 0
    /\ nread < Len(fields)
    /\ fields[nread + 1].big
    /\ LET r == decodeBigInt(rbuf, fields[nread + 1].w)
       IN  /\ op' = "decodeBigInt"
           /\ arg' = [w |-> fields[nread + 1].w]
           /\ ret' = r.n
           /\ rbuf' = r.this
    /\ nread' = nread + 1
    /\ UNCHANGED <<page, conv, wbuf, fields, text, opts, lookupCache>>

NextBitBuffer ==
    \/ CanWrite /\ \E w \in IntWidths : \E n \in IntValues(w) : EncodeInt(n, w)
    \/ CanWrite /\ \E w \in BigWidths : \E n \in BigValues(w) : EncodeBigInt(n, w)
    \/ Writing /\ \E options \in AlphabetOptions : ToBase64(options)
    \/ FromBase64
    \/ op = "init" /\ \E str \in Strings, options \in AlphabetOptions : FromBase64Str(str, options)
    \/ DecodeInt
    \/ DecodeBigInt

SpecBitBuffer == InitIdle /\ [][NextBitBuffer]_vars

(* C8: fields written in order with encodeInt / encodeBigInt into a fresh   *)
(* BitBuffer, serialized with toBase64 under an alphabet and read back with *)
(* fromBase64 under the same alphabet, decode to the values written, in the *)
(* same order, with no seek.                                                *)
C8_FieldsRoundTrip ==
    (op \in {"decodeInt", "decodeBigInt"}) => ret = fields[nread].n

\* the second of two fields, one of them not byte-aligned, read back under
\* the sortable alphabet
C8_Witness ==
    /\ op = "decodeBigInt"
    /\ nread = 2
    /\ fields[1].w = 6
    /\ fields[2].n = BigDec(BigBit(52))
    /\ opts = Options(Str(NameSortable))

\* the bits of a field as encodeInt / encodeBigInt are documented to lay them
\* out: w bits, most significant first
FieldBits(f) ==
    [k \in 1..f.w |-> IF f.big THEN f.n[f.w - k] ELSE Shr(f.n, f.w - k) % 2]
RECURSIVE WrittenBits(_)
WrittenBits(fs) ==
    IF fs = << >> THEN << >> ELSE FieldBits(Head(fs)) \o WrittenBits(Tail(fs))
\* the alphabet an options value stands for
ChosenAlphabet(options) ==
    IF options = Undefined \/ options.alphabet.s = NameRfc4648 THEN Rfc4648
    ELSE IF options.alphabet.s = NameSortable THEN Sortable
    ELSE options.alphabet.s
\* the value of the i-th 6-bit group (i from 1) of bits, zeros past the end
Sextet(bits, i) ==
    LET b(j) == IF 6 * (i - 1) + j <= Len(bits) THEN bits[6 * (i - 1) + j] ELSE 0
    IN  32 * b(1) + 16 * b(2) + 8 * b(3) + 4 * b(4) + 2 * b(5) + b(6)

\* str holds bits, zero-padded to a multiple of 6, six bits per character of chars
BitExact(str, bits, chars) ==
    /\ Len(str) = CeilDiv(Len(bits), 6)
    /\ \A i \in 1..Len(str) : str[i] = chars[Sextet(bits, i) + 1]

(* C9: after exactly N bits have been written to a fresh BitBuffer (in any  *)
(* split into fields), toBase64 returns exactly ceil(N/6) characters: the   *)
(* written bits, zero-padded on the right to a multiple of 6, six bits per  *)
(* character; never the byte-aligned count (78 bits give 13 characters).    *)
C9_ToBase64BitExact ==
    (op = "toBase64") =>
        /\ ~ret.threw
        /\ BitExact(ret.val.s, WrittenBits(fields), ChosenAlphabet(arg))

\* 26 + 52 = 78 bits serialized: 13 characters where whole bytes would give 14
C9_Witness ==
    /\ op = "toBase64"
    /\ Len(fields) = 2
    /\ fields[1].w = 26
    /\ fields[2].w = 52
    /\ Len(ret.val.s) = 13
    /\ CeilDiv(8 * CeilDiv(78, 8), 6) = 14

(* C10: BitBuffer.fromBase64(s, A) throws exactly when s holds a character  *)
(* that is not in the alphabet A: it throws for every such s and for no s   *)
(* made of characters of A only.                                            *)
C10_FromBase64ThrowsOnForeignChar ==
    (op = "fromBase64") =>
        (ret.threw <=> \E i \in 1..Len(arg.str) :
                          arg.str[i] \notin Range(ChosenAlphabet(arg.options)))

\* a string whose middle character is outside the custom alphabet is refused
C10_Witness ==
    /\ op = "fromBase64"
    /\ arg.str = << "A", "+", "z" >>
    /\ arg.options = Options(Str(Custom))
    /\ ret.threw

-----------------------------------------------------------------------------
(* SpecCursor: encodeInt, encodeBigInt, decodeInt, decodeBigInt, seek and   *)
(* toBase64 are called on one BitBuffer (wbuf) in any order. Ghosts: rbuf   *)
(* is wbuf as it was before the last call, fields the fields written, text  *)
(* the last toBase64 call (the string returned, its options, the number of  *)
(* fields written by then) and opts the toBase64 call before it; arg holds, *)
(* next to the arguments, the ordinal of the call.                          *)

MaxCalls == 4
MaxWrites == 2
CursorInts == {[big |-> FALSE, n |-> 5, w |-> 3], [big |-> FALSE, n |-> 1023, w |-> 10]}
CursorBigInts == {[big |-> TRUE, n |-> BigDec(BigBit(10)), w |-> 10]}
ReadWidths == {3, 10}
SeekTargets == {0, 4}
CursorOptions == {Undefined, Options(Str(NameSortable))}

InitCursor ==
    /\ op = "init"
    /\ arg = [call |-> 0]
    /\ ret = Undefined
    /\ conv = Undefined
    /\ wbuf = NewBitBuffer
    /\ rbuf = NewBitBuffer
    /\ fields = << >>
    /\ text = Undefined
    /\ opts = Undefined
    /\ nread = 0 - 1
    /\ lookupCache = << >>
    /\ NoPage

\* a call of the method name on wbuf, which it leaves as this
CursorCall(name, a, r, this, fs) ==
    /\ arg.call < MaxCalls
    /\ op' = name
    /\ arg' = [x \in DOMAIN a \cup {"call"} |-> IF x = "call" THEN arg.call + 1 ELSE a[x]]
    /\ ret' = r
    /\ wbuf' = this
    /\ rbuf' = wbuf
    /\ fields' = fs
    /\ UNCHANGED <<page, conv, nread, lookupCache>>

\* this is wbuf after the field f has been written
CursorWritten(name, f, this) ==
    /\ Len(fields) < MaxWrites
    /\ CursorCall(name, [n |-> f.n, w |-> f.w], Undefined, this, Append(fields, f))
    /\ UNCHANGED <<text, opts>>
CursorEncodeInt(f) == CursorWritten("encodeInt", f, encodeInt(wbuf, f.n, f.w))
CursorEncodeBigInt(f) == CursorWritten("encodeBigInt", f, encodeBigInt(wbuf, f.n, f.w))

\* r is what decodeInt(w) / decodeBigInt(w) returned
CursorRead(name, w, r) ==
    /\ CursorCall(name, [w |-> w], r.n, r.this, fields)
    /\ UNCHANGED <<text, opts>>
CursorDecodeInt(w) == CursorRead("decodeInt", w, decodeInt(wbuf, w))
CursorDecodeBigInt(w) == CursorRead("decodeBigInt", w, decodeBigInt(wbuf, w))

CursorSeek(total) ==
    /\ CursorCall("seek", [total |-> total], Undefined, seek(wbuf, total), fields)
    /\ UNCHANGED <<text, opts>>

\* r is what toBase64(options) returned
CursorSerialized(options, r) ==
    /\ CursorCall("toBase64", [options |-> options], [threw |-> r.threw, val |-> r.val],
                  r.this, fields)
    /\ text' = [str |-> r.val, options |-> options, writes |-> Len(fields)]
    /\ opts' = text
CursorToBase64(options) == CursorSerialized(options, toBase64(wbuf, options))

NextCursor ==
    \/ \E f \in CursorInts : CursorEncodeInt(f)
    \/ \E f \in CursorBigInts : CursorEncodeBigInt(f)
    \/ \E w \in ReadWidths : CursorDecodeInt(w)
    \/ \E w \in ReadWidths : CursorDecodeBigInt(w)
    \/ \E total \in SeekTargets : CursorSeek(total)
    \/ \E options \in CursorOptions : CursorToBase64(options)

SpecCursor == InitCursor /\ [][NextCursor]_vars

\* the position at which the next encodeInt / encodeBigInt writes and the
\* one from which the next decodeInt / decodeBigInt reads: both methods start
\* from this.byteOffset and this.bitOffset
WritePosition(this) == totalBitOffset(this)
ReadPosition(this) == totalBitOffset(this)

(* C24: a BitBuffer's write cursor and read cursor are independent:         *)
(* decodeInt / decodeBigInt never change the position at which the next     *)
(* encodeInt / encodeBigInt writes, and encodeInt / encodeBigInt never      *)
(* change the position from which the next decodeInt / decodeBigInt reads.  *)
C24_CursorsIndependent ==
    /\ (op \in {"decodeInt", "decodeBigInt"}) => WritePosition(wbuf) = WritePosition(rbuf)
    /\ (op \in {"encodeInt", "encodeBigInt"}) => ReadPosition(wbuf) = ReadPosition(rbuf)

\* bit pos (from 0, most significant bit of byte 0 first) of the storage
BufBit(buf, pos) == Shr(BufAt(buf, pos \div 8), 7 - (pos % 8)) % 2
\* the same, every bit past the high-water mark being 0
ReadBit(this, pos) == IF pos < this.end THEN BufBit(this.buf, pos) ELSE 0

(* C30: decodeInt(w) and decodeBigInt(w) with the cursor at, beyond or      *)
(* crossing end return the w bits at the cursor, every bit past end read as *)
(* 0, advance the cursor by exactly w bits, and leave buf and end as they   *)
(* were (they return: nothing is thrown).                                   *)
C30_DecodePastEnd ==
    (op \in {"decodeInt", "decodeBigInt"} /\ totalBitOffset(rbuf) + arg.w > rbuf.end) =>
        /\ wbuf.buf = rbuf.buf
        /\ wbuf.end = rbuf.end
        /\ totalBitOffset(wbuf) = totalBitOffset(rbuf) + arg.w
        /\ FieldBits([big |-> op = "decodeBigInt", n |-> ret, w |-> arg.w])
              = [k \in 1..arg.w |-> ReadBit(rbuf, totalBitOffset(rbuf) + k - 1)]

\* 3 bits (101) were written; decodeInt(10) from 0 crosses end and returns
\* them followed by seven zeros
C30_Witness ==
    /\ op = "decodeInt"
    /\ arg.w = 10
    /\ rbuf.end = 3
    /\ totalBitOffset(rbuf) = 0
    /\ ret = 640
    /\ totalBitOffset(wbuf) = 10

\* the bits of the fields fs as decodeInt / decodeBigInt read them from this
RECURSIVE ReadFields(_, _)
ReadFields(this, fs) ==
    IF fs = << >> THEN << >>
    ELSE LET d == IF Head(fs).big THEN decodeBigInt(this, Head(fs).w)
                  ELSE decodeInt(this, Head(fs).w)
         IN  FieldBits([big |-> Head(fs).big, n |-> d.n, w |-> Head(fs).w])
             \o ReadFields(d.this, Tail(fs))
\* the same from the buffer BitBuffer.fromBase64 makes of a toBase64 call
FieldsOf(call, fs) == ReadFields(fromBase64(call.str.s, call.options).val, fs)

(* C26: toBase64 called again on the same BitBuffer with no write in        *)
(* between, wherever the cursor was left, returns a string that decodes     *)
(* (under its own alphabet) to the same field values as the string of the   *)
(* call before, and the same string when the alphabet is the same.          *)
C26_ToBase64Repeatable ==
    (op = "toBase64" /\ opts # Undefined /\ opts.writes = Len(fields)) =>
        /\ FieldsOf(text, fields) = FieldsOf(opts, fields)
        /\ text.options = opts.options => text.str = opts.str

-----------------------------------------------------------------------------
(* SpecFixedPoint: encodeFixedPoints writes an array of one or two numbers  *)
(* to a fresh BitBuffer under a scheme, seek(0) rewinds the buffer and      *)
(* decodeFixedPoints reads as many numbers back under the same scheme.      *)

Schemes == [expBits : {5, 11}, mantBits : {8, 22, 52}]
\* exponent fields: zero and subnormals, the smallest normal, 2^-20, 1, the
\* largest and the first refused exponent of 5 exponent bits, the same for
\* 11 exponent bits, and the field of Infinity and NaN
ExpoFields == {0, 1, 1003, 1023, 1037, 1038, 2045, 2046, 2047}
\* fractions: none, all ones, the top bit, and the bits on which the
\* rounding of 52, 22 and 8 mantissa bits turns
FracPatterns == {{}, 0..51, {51}, {0}, {30}, {44}, {31, 29}}
Doubles == {Num(Double(s, e, f)) : s \in {0, 1}, e \in ExpoFields, f \in FracPatterns}
PairParts ==
    {Num(Double(0, 0, {})), Num(Double(0, 1023, {51})),
     Num(Double(1, 1037, 0..51)), Num(Double(0, 1003, {30})), Num(Double(0, 1038, {}))}
ValueArrays == {<< v >> : v \in Doubles} \cup {<< a, b >> : a \in PairParts, b \in PairParts}

InitFixedPoint ==
    /\ op = "init"
    /\ arg \in [vals : ValueArrays, scheme : Schemes]
    /\ ret = Undefined
    /\ conv = Undefined
    /\ wbuf = NewBitBuffer
    /\ rbuf = NewBitBuffer
    /\ fields = << >>
    /\ text = Undefined
    /\ opts = Undefined
    /\ nread = 0 - 1
    /\ lookupCache = << >>
    /\ NoPage

EncodeFixedPoints ==
    /\ op = "init"
    /\ LET r == encodeFixedPoints(wbuf, arg.vals, arg.scheme)
       IN  /\ op' = "encodeFixedPoints"
           /\ ret' = [threw |-> r.threw, val |-> r.val]
           /\ wbuf' = r.this
    /\ UNCHANGED <<page, arg, conv, rbuf, fields, text, opts, nread, lookupCache>>

\* buf.seek(0) after a successful encodeFixedPoints
Seek ==
    /\ op = "encodeFixedPoints"
    /\ ~ret.threw
    /\ op' = "seek"
    /\ wbuf' = seek(wbuf, 0)
    /\ UNCHANGED <<page, arg, ret, conv, rbuf, fields, text, opts, nread, lookupCache>>

\* buf.decodeFixedPoints(vals.length, scheme) on the rewound buffer
DecodeFixedPoints ==
    /\ op = "seek"
    /\ LET r == decodeFixedPoints(wbuf, Len(arg.vals), arg.scheme)
       IN  /\ op' = "decodeFixedPoints"
           /\ ret' = r.val
           /\ wbuf' = r.this
    /\ UNCHANGED <<page, arg, conv, rbuf, fields, text, opts, nread, lookupCache>>

NextFixedPoint ==
    \/ EncodeFixedPoints
    \/ Seek
    \/ DecodeFixedPoints

SpecFixedPoint == InitFixedPoint /\ [][NextFixedPoint]_vars

\* n < 2^t for a BigInt n
BelowPow2(n, t) == n = BigZero \/ BigBitLength(n) <= t
\* |a - b| < 2^k for finite doubles a and b and k at most the smaller of
\* their scales: exact on the significands brought to the smaller scale when
\* the scales are within 10 of each other; otherwise the larger of two
\* non-zero numbers is normal and |a - b| >= 2^(larger scale - 1) >= 2^k
DistBelowPow2(a, b, k) ==
    LET lo == Min(Scale(a), Scale(b))
        hi == Max(Scale(a), Scale(b))
        A == BigShl(Significand(a), Scale(a) - lo)
        B == BigShl(Significand(b), Scale(b) - lo)
        D == IF a[63] # b[63] THEN BigAdd(A, B)
             ELSE IF BigLt(A, B) THEN BigSub(B, A) ELSE BigSub(A, B)
    IN  IF Significand(a) = BigZero THEN BelowPow2(Significand(b), k - (Scale(b) - 52))
        ELSE IF Significand(b) = BigZero THEN BelowPow2(Significand(a), k - (Scale(a) - 52))
        ELSE IF hi - lo > 10 THEN FALSE
        ELSE BelowPow2(D, k - (lo - 52))

(* C2: for every scheme with mantBits in 8..52 and every finite v that      *)
(* encodeFixedPoints accepts, decodeFixedPoints(1, scheme) after            *)
(* encodeFixedPoints([v], scheme) returns v' with                           *)
(* |v' - v| < 2^(exp(v) - mantBits), exp(v) the unbiased exponent of v      *)
(* (exponent field - 1023), also when the discarded bits round up with a    *)
(* carry.                                                                   *)
C2_LossyErrorBound ==
    (/\ op = "decodeFixedPoints"
     /\ Len(arg.vals) = 1
     /\ IsFiniteBits(arg.vals[1].bits)
     /\ arg.scheme.mantBits \in 8..52) =>
        /\ IsFiniteBits(ret[1].bits)
        /\ DistBelowPow2(ret[1].bits, arg.vals[1].bits,
                         (ExpoField(arg.vals[1].bits) - 1023) - arg.scheme.mantBits)

\* the largest (unbiased exponent + 1) over the values of an array
RECURSIVE SharedExponent(_)
SharedExponent(vals) ==
    IF Len(vals) = 1 THEN ExpoField(vals[1].bits) - 1022
    ELSE Max(ExpoField(vals[1].bits) - 1022, SharedExponent(Tail(vals)))

\* C11: encodeFixedPoints(vals, scheme) throws when the largest (unbiased
\* exponent + 1) over vals is at least 2^(expBits - 1), and has then written
\* nothing: buf, the cursor and end are as before the call.
C11_OverflowThrowsAndWritesNothing ==
    (op = "encodeFixedPoints" /\ SharedExponent(arg.vals) >= Pow2(arg.scheme.expBits - 1))
        => ret.threw /\ wbuf = NewBitBuffer
C11_Witness ==
    /\ op = "encodeFixedPoints"
    /\ Len(arg.vals) = 2
    /\ arg.scheme.expBits = 5
    /\ SharedExponent(arg.vals) = 16
    /\ ret.threw
    /\ wbuf = NewBitBuffer

\* the shared exponent decodeFixedPoints reads back from the first expBits
\* bits of the buffer: expRaw - 2^(expBits - 1)
DecodedExponent(this, scheme) ==
    decodeInt(seek(this, 0), scheme.expBits).n - Shl(1, scheme.expBits - 1)

(* C22: for every vals and scheme that encodeFixedPoints accepts, the       *)
(* shared exponent decodeFixedPoints reconstructs from the expBits-wide     *)
(* field equals the shared exponent used at encode time (the largest        *)
(* unbiased exponent + 1), for small magnitudes as well as large ones.      *)
C22_ExponentFieldInverse ==
    (op = "decodeFixedPoints") =>
        DecodedExponent(wbuf, arg.scheme) = SharedExponent(arg.vals)

(* C23: for every scheme and every vals holding 0 at some position,         *)
(* decodeFixedPoints after encodeFixedPoints returns 0 at that position.    *)
C23_ZeroRoundTrips ==
    (op = "decodeFixedPoints") =>
        \A i \in 1..Len(arg.vals) :
            IsZeroBits(arg.vals[i].bits) => IsZeroBits(ret[i].bits)

-----------------------------------------------------------------------------
(* SpecParam: floatParam or pointParam makes a converter from an options    *)
(* value; the converter then encodes a value and decodes what it encoded,   *)
(* or decodes a string from elsewhere (nothing, the empty string, short     *)
(* texts over a few characters, encodings made by other converters).        *)
(* A call's result is bound by passing it to an operator, never by LET, so  *)
(* that each call is written once.                                          *)

MaxTextLen == 2

PlusZero == Num(Double(0, 0, {}))
MinusZero == Num(Double(1, 0, {}))
OneAndHalf == Num(Double(0, 1023, {51}))
MinusOneAndHalf == Num(Double(1, 1023, {51}))
NotANumber == Num(NaNBits)

Defaults == {PlusZero, MinusZero, OneAndHalf, NotANumber}
LossySchemes == {[expBits |-> 5, mantBits |-> 22], [expBits |-> 5, mantBits |-> 8],
                 [expBits |-> 11, mantBits |-> 52]}
PrecisionText == << "5", "+", "2", "2" >>

\* a string that is neither a preset name nor 64 characters long
ShortAlphabet == << "a", "b", "c" >>
\* options whose mantissa width is below MIN_MANT_BITS
SmallMantOptions ==
    {[t |-> "object", exp |-> SmallInt(5), mant |-> SmallInt(4)],
     [t |-> "object", precision |-> Str(<< "5", "+", "4" >>)]}
\* the arguments of floatParam: a number, or an options object; the options
\* without a default are those the validation refuses, and SmallMantOptions
FloatParamOptions ==
    Defaults
    \cup {[t |-> "object"]}
    \cup {[t |-> "object", default |-> d, alphabet |-> Str(a)] :
             d \in Defaults, a \in {NameSortable, Custom}}
    \cup {[t |-> "object", default |-> d, exp |-> SmallInt(s.expBits), mant |-> SmallInt(s.mantBits)] :
             d \in Defaults, s \in LossySchemes}
    \cup {[t |-> "object", default |-> d, encoding |-> "base64", exp |-> SmallInt(s.expBits),
           mant |-> SmallInt(s.mantBits), alphabet |-> Str(NameSortable)] :
             d \in Defaults, s \in LossySchemes}
    \cup {[t |-> "object", default |-> d, precision |-> Str(PrecisionText),
           alphabet |-> Str(Custom)] : d \in Defaults}
    \cup {[t |-> "object", default |-> d, encoding |-> "string"] : d \in Defaults}
    \cup {[t |-> "object", default |-> d, encoding |-> "string", decimals |-> SmallInt(k)] :
             d \in Defaults, k \in {0, 2}}
    \cup {[t |-> "object", encoding |-> "string", exp |-> SmallInt(5)],
          [t |-> "object", decimals |-> SmallInt(2)],
          [t |-> "object", exp |-> SmallInt(5)],
          [t |-> "object", exp |-> SmallInt(5), mant |-> SmallInt(22), precision |-> Str(PrecisionText)],
          [t |-> "object", precision |-> Str(<< "5", "-", "2", "2" >>)]}
    \cup SmallMantOptions
    \cup {[t |-> "object", alphabet |-> Str(ShortAlphabet)]}

PointDefaults == {Point(OneAndHalf, MinusZero), Point(NotANumber, OneAndHalf)}
\* the arguments of pointParam; the last lines hold precisions outside
\* MIN_MANT_BITS..MAX_MANT_BITS, as a number and as a scheme object
PointParamOptions ==
    {[t |-> "object"], [t |-> "object", precision |-> SmallInt(8)],
     [t |-> "object", alphabet |-> Str(NameSortable),
      precision |-> [t |-> "object", scheme |-> [expBits |-> 11, mantBits |-> 52]]],
     [t |-> "object", encoding |-> "string"],
     [t |-> "object", encoding |-> "string", decimals |-> SmallInt(0)]}
    \cup {[t |-> "object", default |-> d, alphabet |-> Str(a)] :
             d \in PointDefaults, a \in {NameSortable, Custom}}
    \cup {[t |-> "object", default |-> d, encoding |-> "base64", precision |-> SmallInt(m)] :
             d \in PointDefaults, m \in {8, 52}}
    \cup {[t |-> "object", default |-> d, encoding |-> "string"] : d \in PointDefaults}
    \cup {[t |-> "object", default |-> d, encoding |-> "string", decimals |-> SmallInt(0)] :
             d \in PointDefaults}
    \cup {[t |-> "object", precision |-> SmallInt(7)], [t |-> "object", precision |-> SmallInt(53)]}
    \cup {[t |-> "object", precision |-> [t |-> "object", scheme |-> [expBits |-> 5, mantBits |-> 4]]]}
    \cup {[t |-> "object", alphabet |-> Str(ShortAlphabet)]}
\* the arguments of binaryParam, toBytes and fromBytes left out
BinaryParamOptions ==
    {[t |-> "object"], [t |-> "object", alphabet |-> Str(NameSortable)],
     [t |-> "object", alphabet |-> Str(ShortAlphabet)]}
\* the values given to a binaryParam converter
BinaryInputs == {Null, Array(<< >>), Array(<< 165 >>), Array(<< 0, 60, 255 >>)}

\* numbers given to the base64 converters: the zeros, 1.5 and -1.5, the
\* largest number below 2, 65536, 2^-20, the largest finite number, the
\* smallest subnormal, NaN and Infinity
FloatInputs ==
    {PlusZero, MinusZero, OneAndHalf, MinusOneAndHalf, Num(Double(0, 1023, 0..51)),
     Num(Double(0, 1039, {})), Num(Double(0, 1003, {})), Num(Double(0, 2046, 0..51)),
     Num(Double(0, 0, {0})), NotANumber, Num(Double(0, 2047, {}))}
\* numbers given to the text converters: the zeros, 1.5, -1.5, 2.5, 0.25,
\* 12, 1.005, -0.001, NaN and -Infinity
OneAndFiveThousandths ==
    Num(Double(0, 1023, {2, 4, 9, 10, 11, 13, 15, 16, 17, 18, 22, 24, 29, 30, 31, 33, 35, 36,
                         37, 38, 42, 44}))
MinusOneThousandth ==
    Num(Double(1, 1013, {2, 3, 4, 5, 6, 7, 8, 11, 13, 15, 16, 20, 21, 22, 23, 25, 28, 30, 31,
                         32, 34, 35, 38, 41, 45, 46}))
TextInputs ==
    {PlusZero, MinusZero, OneAndHalf, MinusOneAndHalf, Num(Double(0, 1024, {50})),
     Num(Double(0, 1021, {})), Num(Double(0, 1026, {51})), OneAndFiveThousandths,
     MinusOneThousandth, NotANumber, Num(Double(1, 2047, {}))}
PointInputs ==
    {Null, Point(OneAndHalf, MinusOneAndHalf), Point(PlusZero, PlusZero),
     Point(Num(Double(0, 1039, {})), OneAndHalf),
     Point(Num(Double(0, 1023, 0..51)), Num(Double(0, 1003, {}))),
     Point(Num(Double(0, 2047, {})), OneAndHalf)}
PointTextInputs ==
    {Null, Point(OneAndHalf, MinusOneAndHalf), Point(MinusZero, PlusZero),
     Point(Num(Double(0, 1026, {51})), Num(Double(0, 1021, {}))),
     Point(Num(Double(1, 1024, {50})), MinusOneThousandth),
     Point(OneAndFiveThousandths, Num(Double(0, 1024, {50}))),
     Point(Num(Double(0, 2046, 0..51)), OneAndHalf)}

\* the configured default of a converter
DefaultOf(p) ==
    IF p.kind = "point" THEN p.defaultPoint
    ELSE IF p.kind = "binary" THEN Null
    ELSE p.defaultValue
\* the values a converter is given: those of its kind and its own default
InputsOf(p) ==
    {DefaultOf(p)} \cup
    (CASE p.kind \in {"lossless", "lossy"} -> FloatInputs
       [] p.kind \in {"fullString", "truncatedString"} -> TextInputs
       [] p.kind = "point" /\ p.encoding = "string" -> PointTextInputs
       [] p.kind = "binary" -> BinaryInputs
       [] OTHER -> PointInputs)

TextChars == {"A", "1", "-", " ", "."}
Texts == UNION {[1..n -> TextChars] : n \in 1..MaxTextLen}
\* encodings made by other converters: lossless 1.5, lossy -1.5 (5+22, the
\* sortable alphabet), the point (1.5, -1.5) (5+22), and two point texts
ForeignTexts ==
    {Str(<< "P", "_", "g", "A", "A", "A", "A", "A", "A", "A", "A" >>),
     Str(<< "Y", "k", "-", "-", "-" >>),
     Str(<< "i", "w", "A", "A", "D", "g", "A", "A", "A" >>),
     Str(<< "1", ".", "5", "0", " ", "2", ".", "5", "0" >>),
     Str(<< "1", ".", "5", "0", "-", "2", ".", "5", "0" >>)}
EncodedInputs == {Undefined, Str(<< >>)} \cup {Str(s) : s \in Texts} \cup ForeignTexts

InitParam ==
    /\ op = "init"
    /\ arg \in [factory : {"floatParam"}, options : FloatParamOptions]
               \cup [factory : {"pointParam"}, options : PointParamOptions]
               \cup [factory : {"binaryParam"}, options : BinaryParamOptions]
    /\ ret = Undefined
    /\ conv = Undefined
    /\ wbuf = NewBitBuffer
    /\ rbuf = NewBitBuffer
    /\ fields = << >>
    /\ text = Undefined
    /\ opts = Undefined
    /\ nread = 0 - 1
    /\ lookupCache = << >>
    /\ NoPage

\* a factory call returns: conv is the converter made, if any
Constructed(factory, r) ==
    /\ op' = factory
    /\ ret' = IF r.threw THEN r ELSE Ok(Undefined)
    /\ conv' = IF r.threw THEN conv ELSE r.val
    /\ UNCHANGED <<page, arg, wbuf, rbuf, fields, text, opts, nread, lookupCache>>

\* floatParam(options)
FloatParam ==
    /\ op = "init"
    /\ arg.factory = "floatParam"
    /\ Constructed("floatParam", floatParam(arg.options))

\* pointParam(options)
PointParam ==
    /\ op = "init"
    /\ arg.factory = "pointParam"
    /\ Constructed("pointParam", pointParam(arg.options))

\* binaryParam(options)
BinaryParam ==
    /\ op = "init"
    /\ arg.factory = "binaryParam"
    /\ Constructed("binaryParam", binaryParam(arg.options))

\* a converter has just been made
Made == op \in {"floatParam", "pointParam", "binaryParam"} /\ conv # Undefined

\* conv.encode(value)
Encode(value) ==
    /\ op' = "encode"
    /\ arg' = [value |-> value]
    /\ ret' = encode(conv, value)
    /\ UNCHANGED <<page, conv, wbuf, rbuf, fields, text, opts, nread, lookupCache>>

\* a converter has just encoded a value
Encoded == op = "encode" /\ ~ret.threw
\* what decode is given: what conv.encode has just returned, or nothing, the
\* empty string or a string from elsewhere
DecodeInputs == IF op = "encode" THEN {ret.val} ELSE EncodedInputs
\* decode returns r
Decoded(encoded, r) ==
    /\ op' = "decode"
    /\ arg' = [encoded |-> encoded, roundTrip |-> op = "encode",
               value |-> IF op = "encode" THEN arg.value ELSE Undefined]
    /\ ret' = [threw |-> r.threw, val |-> r.val]
    /\ lookupCache' = r.cache
    /\ UNCHANGED <<page, conv, wbuf, rbuf, fields, text, opts, nread>>

\* conv.decode(encoded)
Decode(encoded) == Decoded(encoded, decode(conv, encoded, lookupCache))

NextParam ==
    \/ FloatParam
    \/ PointParam
    \/ BinaryParam
    \/ Made /\ \E value \in InputsOf(conv) : Encode(value)
    \/ (Made \/ Encoded) /\ \E encoded \in DecodeInputs : Decode(encoded)

SpecParam == InitParam /\ [][NextParam]_vars

\* a number that is finite; a point whose coordinates both are
FiniteValue(v) ==
    IF v = Null THEN FALSE
    ELSE IF "bits" \in DOMAIN v THEN IsFiniteBits(v.bits)
    ELSE IsFiniteBits(v.x.bits) /\ IsFiniteBits(v.y.bits)
\* the underlying byte codec or Bit Buffer decoding of encoded raises an error
InnerRaises(p, encoded) ==
    /\ encoded \notin {Undefined, Str(<< >>)}
    /\ CASE p.kind = "lossless" ->
                LET bytes == base64Decode(encoded.s, p.opts, << >>)
                IN  bytes.threw \/ bytesToFloat(bytes.val).threw
         [] p.kind = "lossy" -> fromBase64(encoded.s, p.opts).threw
         [] p.kind = "point" /\ p.encoding = "base64" ->
                fromBase64(encoded.s, p.base64Opts).threw
         [] p.kind = "binary" -> base64Decode(encoded.s, p.encodeOpts, << >>).threw
         [] OTHER -> FALSE

\* C1: for every finite double v, every default d and every alphabet, the
\* lossless base64 converter's decode(encode(v)) is v with the same 64 bits,
\* the sign of zero included.
C1_LosslessRoundTrip ==
    (op = "decode" /\ arg.roundTrip /\ conv.kind = "lossless" /\ FiniteValue(arg.value))
        => ret = Ok(arg.value)

\* C3: for every converter of every factory with default d, encode(d) is
\* undefined and decode(undefined) and decode('') are both d.
C3_DefaultContract ==
    /\ (op = "encode" /\ arg.value = DefaultOf(conv)) => ret = Ok(Undefined)
    /\ (op = "decode" /\ arg.encoded \in {Undefined, Str(<< >>)}) => ret = Ok(DefaultOf(conv))

\* C4: decode of any string returns a value and never throws, and returns
\* the configured default whenever the byte codec or the Bit Buffer decoding
\* underneath raises an error.
C4_DecodeNeverThrows ==
    op = "decode" =>
        /\ ~ret.threw
        /\ InnerRaises(conv, arg.encoded) => ret.val = DefaultOf(conv)
C4_Witness ==
    /\ op = "decode"
    /\ ~arg.roundTrip
    /\ conv.kind = "lossy"
    /\ InnerRaises(conv, arg.encoded)
    /\ ret = Ok(conv.defaultValue)

\* C5: encode of a finite number, or of a point with finite coordinates,
\* returns a string or undefined and never throws, a lossy scheme whose
\* expBits cannot hold the shared exponent included.
C5_EncodeNeverThrows ==
    (op = "encode" /\ FiniteValue(arg.value)) => ~ret.threw

\* C12: the length of an encoded non-default value depends on the mode and
\* the scheme only: 11 characters for a lossless float,
\* ceil((expBits + 1 + mantBits) / 6) for a lossy float and
\* ceil((expBits + 2 * (1 + mantBits)) / 6) for a lossy point.
C12_EncodedLength ==
    (op = "encode" /\ ~ret.threw /\ ret.val # Undefined) =>
        CASE conv.kind = "lossless" -> Len(ret.val.s) = 11
          [] conv.kind = "lossy" ->
                 Len(ret.val.s) = CeilDiv(conv.scheme.expBits + 1 + conv.scheme.mantBits, 6)
          [] conv.kind = "point" /\ conv.encoding = "base64" ->
                 Len(ret.val.s)
                     = CeilDiv(conv.scheme.expBits + 2 * (1 + conv.scheme.mantBits), 6)
          [] OTHER -> TRUE
C12_Witness ==
    /\ op = "encode"
    /\ conv.kind = "point"
    /\ conv.encoding = "base64"
    /\ conv.scheme = [expBits |-> 11, mantBits |-> 52]
    /\ ~ret.threw
    /\ ret.val # Undefined
    /\ Len(ret.val.s) = 20

\* |v| * c lies exactly half way between two integers (the bits of a finite v)
ScaledTie(v, c) ==
    /\ 52 - Scale(v) >= 1
    /\ 52 - Scale(v) - 1 \in BigWidth
    /\ BigTimes(Significand(v), c)[52 - Scale(v) - 1] = 1
    /\ \A i \in BigWidth : i < 52 - Scale(v) - 1 => BigTimes(Significand(v), c)[i] = 0
\* the integers n with n / 10^d the magnitude of v rounded to d places, a
\* tie going either way
Roundings(v, d) ==
    {ScaledRound(v.bits, Pow10(d))}
        \cup (IF ScaledTie(v.bits, Pow10(d)) THEN {ScaledRound(v.bits, Pow10(d)) - 1} ELSE {})
\* str is v rounded to n / 10^d, printed with exactly d decimals, with a
\* minus sign only for a negative v and always for one that does not round
\* to zero
PrintsAs(str, v, n, d) ==
    /\ str \in {Decimal(n, d), << "-" >> \o Decimal(n, d)}
    /\ str[1] = "-" => v.bits[63] = 1
    /\ (v.bits[63] = 1 /\ n > 0) => str[1] = "-"
\* the number num is n / 10^d with the sign of v (a zero of either sign for 0)
ReadsAs(num, v, n, d) == StrictEquals(num, Num(RatToDouble(v.bits[63], n, Pow10(d))))

\* C13: in text mode with d decimals, encode prints x and y, each rounded to
\* d places with exactly d decimals, with one space between them when the
\* rounded y is >= 0 and nothing between them when it is negative, and
\* decode reads every such string back as the rounded (x, y), for every
\* point of finite coordinates.
C13_PointTextRoundTrip ==
    (/\ op = "decode"
     /\ arg.roundTrip
     /\ conv.kind = "point"
     /\ conv.encoding = "string"
     /\ arg.encoded # Undefined
     /\ FiniteValue(arg.value)) =>
        \E nx \in Roundings(arg.value.x, conv.decimals),
           ny \in Roundings(arg.value.y, conv.decimals),
           k \in 1..Len(arg.encoded.s) :
            LET rest == SubSeq(arg.encoded.s, k + 1, Len(arg.encoded.s))
                ys == IF rest # << >> /\ rest[1] = " " THEN Tail(rest) ELSE rest
            IN  /\ PrintsAs(SubSeq(arg.encoded.s, 1, k), arg.value.x, nx, conv.decimals)
                /\ rest # << >>
                /\ ys # << >>
                /\ (rest[1] = " ") <=> (ys[1] # "-")
                /\ PrintsAs(ys, arg.value.y, ny, conv.decimals)
                /\ ret = Ok(ret.val)
                /\ ret.val # Null
                /\ ReadsAs(ret.val.x, arg.value.x, nx, conv.decimals)
                /\ ReadsAs(ret.val.y, arg.value.y, ny, conv.decimals)

(* C15: every PrecisionScheme a converter uses has mantBits in 8..52:       *)
(* floatParam (exp/mant or a precision string 'E+M') and pointParam (a      *)
(* numeric precision or a scheme object) throw at construction otherwise.   *)
C15_MantBitsInRange ==
    (conv # Undefined /\ conv.kind \in {"lossy", "point"}) =>
        (conv.scheme.mantBits >= MIN_MANT_BITS /\ conv.scheme.mantBits <= MAX_MANT_BITS)


\* the alphabet option given to the factory is a string that is no preset
\* name and that validateAlphabet refuses
InvalidAlphabetGiven(options) ==
    /\ options.t = "object"
    /\ "alphabet" \in DOMAIN options
    /\ options.alphabet.s \notin DOMAIN ALPHABETS
    /\ InvalidAlphabet(options.alphabet.s)

(* C16: an invalid alphabet (not 64 characters, a repeated character, or a  *)
(* character outside [A-Za-z0-9-_]) given to floatParam, pointParam or      *)
(* binaryParam is thrown at the call that supplies it; so no converter made *)
(* with an invalid alphabet exists to return its default from decode.       *)
C16_InvalidAlphabetThrownAtConstruction ==
    InvalidAlphabetGiven(arg.options) =>
        /\ (op \in {"floatParam", "pointParam", "binaryParam"} => ret.threw)
        /\ conv = Undefined

-----------------------------------------------------------------------------
(* core.ts: multi-value parameters, the location strategies and the patched *)
(* History API.                                                             *)
(*                                                                          *)
(* A part of the location (location.search, location.hash) is the list of   *)
(* key/value pairs URLSearchParams reads from it; percent-encoding, '?' and *)
(* '#' are not modelled. A Record<string, MultiEncoded> is the sequence of   *)
(* its entries (key, values) in insertion order.                            *)

Pair(key, value) == [key |-> key, value |-> value]
\* a key written without '=': its value reads as ''
Bare(key) == [key |-> key, value |-> << >>, bare |-> TRUE]
\* an entry of a Record<string, MultiEncoded>; a record is the sequence of its
\* entries in insertion order, the order Object.entries visits them in
Entry(key, values) == [key |-> key, values |-> values]
\* key in params
HasKey(params, key) == \E i \in 1..Len(params) : params[i].key = key

\* searchParams.getAll(key)
RECURSIVE getAll(_, _)
getAll(searchParams, key) ==
    IF searchParams = << >> THEN << >>
    ELSE (IF Head(searchParams).key = key THEN << Head(searchParams).value >> ELSE << >>)
         \o getAll(Tail(searchParams), key)

\* result[key] = searchParams.getAll(key) for the keys of the pairs from the
\* i-th on, each key once, in the order of its first pair
RECURSIVE ParsedFrom(_, _)
ParsedFrom(source, i) ==
    IF i > Len(source) THEN << >>
    ELSE (IF \E j \in 1..(i - 1) : source[j].key = source[i].key THEN << >>
          ELSE << Entry(source[i].key, getAll(source, source[i].key)) >>)
         \o ParsedFrom(source, i + 1)
parseMultiParams(source) == ParsedFrom(source, 1)

\* searchParams.append(key, value) for the values of params[key] from the
\* i-th on, '' skipped
RECURSIVE Appended(_, _, _)
Appended(key, values, i) ==
    IF i > Len(values) THEN << >>
    ELSE (IF values[i] = << >> THEN << >> ELSE << Pair(key, values[i]) >>)
         \o Appended(key, values, i + 1)
\* the pairs of the entries from the i-th on; valueless gives the keys whose
\* values include '', once each and without '='
RECURSIVE Serialized(_, _, _)
Serialized(params, i, valueless) ==
    IF i > Len(params) THEN << >>
    ELSE (IF valueless
          THEN (IF << >> \in Range(params[i].values)
                THEN << Bare(params[i].key) >> ELSE << >>)
          ELSE Appended(params[i].key, params[i].values, 1))
         \o Serialized(params, i + 1, valueless)
serializeMultiParams(params) == Serialized(params, 1, FALSE) \o Serialized(params, 1, TRUE)

\* queryStrategy / hashStrategy
getRaw(strategy, loc) == IF strategy = "hash" THEN loc.hash ELSE loc.search
parse(strategy, loc) == parseMultiParams(getRaw(strategy, loc))
buildUrl(strategy, base, params) ==
    IF strategy = "hash" THEN [base EXCEPT !.hash = serializeMultiParams(params)]
    ELSE [base EXCEPT !.search = serializeMultiParams(params)]

\* fault: the query strategy without its listener for the custom event
subscribePopstateOnly(strategy, event) ==
    \/ event = "popstate"
    \/ strategy = "hash" /\ event \in {"hashchange", "use-prms:locationchange"}
\* strategy.subscribe(callback): the events callback is added for
subscribe(strategy, event) ==
    \/ event \in {"popstate", "use-prms:locationchange"}
    \/ strategy = "hash" /\ event = "hashchange"

-----------------------------------------------------------------------------
(* SpecCore: serializeMultiParams is called on a record drawn in the        *)
(* initial state, and parseMultiParams on the string it returned.           *)

MaxKeys == 2
CoreKeys == {"z", "d", "x"}
Gym == << "g", "y", "m" >>
\* the values of a key: none, '', 'gym' and the lists of two of them
CoreValueLists ==
    {<< >>, << << >> >>, << Gym >>, << << >>, Gym >>, << Gym, << >> >>, << Gym, Gym >>}
\* the records of at most MaxKeys keys, in every insertion order
ParamRecords ==
    UNION {{r \in [1..n -> [key : CoreKeys, values : CoreValueLists]] :
               \A i, j \in 1..n : i # j => r[i].key # r[j].key} : n \in 0..MaxKeys}

\* searchParams.toString() and the join with the valueless keys, character
\* by character (a key is one token)
RECURSIVE searchParamsToString(_, _)
searchParamsToString(pairs, i) ==
    IF i > Len(pairs) THEN << >>
    ELSE (IF i > 1 THEN << "&" >> ELSE << >>)
         \o << pairs[i].key >>
         \o (IF "bare" \in DOMAIN pairs[i] THEN << >> ELSE << "=" >> \o pairs[i].value)
         \o searchParamsToString(pairs, i + 1)

InitCore ==
    /\ op = "init"
    /\ arg \in [params : ParamRecords]
    /\ ret = Undefined
    /\ conv = Undefined
    /\ wbuf = NewBitBuffer
    /\ rbuf = NewBitBuffer
    /\ fields = << >>
    /\ text = Undefined
    /\ opts = Undefined
    /\ nread = 0 - 1
    /\ lookupCache = << >>
    /\ NoPage

SerializeMultiParams ==
    /\ op = "init"
    /\ op' = "serializeMultiParams"
    /\ ret' = Ok(serializeMultiParams(arg.params))
    /\ UNCHANGED <<page, arg, idle>>

ParseMultiParams ==
    /\ op = "serializeMultiParams"
    /\ op' = "parseMultiParams"
    /\ arg' = [params |-> arg.params, source |-> ret.val]
    /\ ret' = Ok(parseMultiParams(ret.val))
    /\ UNCHANGED <<page, idle>>

NextCore ==
    \/ SerializeMultiParams
    \/ ParseMultiParams

SpecCore == InitCore /\ [][NextCore]_vars

\* the position of key in the record
KeyIndex(params, key) == CHOOSE i \in 1..Len(params) : params[i].key = key

(* C21: serializeMultiParams emits a key whose values contain '' as a bare  *)
(* key without '=', and emits the keys in the order of the input record:    *)
(* {z: [''], d: ['gym']} serializes to 'z&d=gym'.                           *)
C21_SerializedInRecordOrder ==
    (op = "serializeMultiParams") =>
        /\ \A i \in 1..Len(arg.params) :
              << >> \in Range(arg.params[i].values) =>
                  /\ \E p \in 1..Len(ret.val) :
                        ret.val[p].key = arg.params[i].key /\ "bare" \in DOMAIN ret.val[p]
                  /\ \A p \in 1..Len(ret.val) :
                        (ret.val[p].key = arg.params[i].key /\ "bare" \notin DOMAIN ret.val[p])
                            => ret.val[p].value # << >>
        /\ \A p, q \in 1..Len(ret.val) :
              p < q => KeyIndex(arg.params, ret.val[p].key) <= KeyIndex(arg.params, ret.val[q].key)
        /\ arg.params = << Entry("z", << << >> >>), Entry("d", << Gym >>) >>
              => searchParamsToString(ret.val, 1) = << "z", "&", "d", "=", "g", "y", "m" >>

-----------------------------------------------------------------------------
(* hooks.ts: debounce, getSnapshot, useUrlState.                            *)
(*                                                                          *)
(* A hook instance is a record of its arguments (key, debounceMs, push),    *)
(* its refs (lastWrittenRef, cacheRef, debouncedWriteRef), the timeoutId of *)
(* its debounced function (null, or the arguments the timer will call       *)
(* writeToUrl with), the snapshot and value of its last render, and         *)
(* needsRender: the store has told React that the snapshot changed.         *)
(* The param of every hook is conv. Ghost: lastSet, the argument of the     *)
(* latest setValue; history.by, who changed the location last (a hook, or   *)
(* "other" code).                                                           *)

\* getSnapshot(strategy): the snapshotCache only keeps the identity of the
\* object returned for an unchanged raw string; snapshots are compared by
\* content here
getSnapshot(strategy, loc) == parse(strategy, loc)

\* urlParams[key] ?? []
Lookup(urlParams, key) ==
    IF HasKey(urlParams, key)
    THEN urlParams[CHOOSE i \in 1..Len(urlParams) : urlParams[i].key = key].values
    ELSE << >>
multiToSingle(multi) == IF Len(multi) = 0 THEN Undefined ELSE Str(multi[1])

\* window.dispatchEvent(event) for each event of events: the callback
\* useSyncExternalStore subscribed re-renders a hook whose snapshot changed
dispatchEvent(hs, loc, events) ==
    [h \in DOMAIN hs |->
        IF /\ hs[h].subscribed
           /\ \E event \in events : subscribe(defaultStrategy, event)
           /\ getSnapshot(defaultStrategy, loc) # hs[h].urlParams
        THEN [hs[h] EXCEPT !.needsRender = TRUE]
        ELSE hs[h]]

\* the body of useUrlState down to `value`, when the encoded value is not the
\* one last written: r is what param.decode(encoded) returns
Redecoded(hk, encoded, r) ==
    [hk EXCEPT !.cacheRef = [encoded |-> encoded, decoded |-> r.val],
               !.value = r.val,
               !.lastWrittenRef = Null]
\* the same when cacheRef holds the decoding of encoded
FromCache(hk) == [hk EXCEPT !.value = hk.cacheRef.decoded, !.lastWrittenRef = Null]
\* the effect that creates the debounced write, and the subscription
Committed(hk, urlParams) ==
    [hk EXCEPT !.debouncedWriteRef = IF hk.debounceMs > 0 THEN "debounced" ELSE "null",
               !.subscribed = TRUE,
               !.urlParams = urlParams,
               !.needsRender = FALSE]

\* currentParams after `delete currentParams[key]` or `currentParams[key] = [newEncoded]`
Updated(currentParams, key, newEncoded) ==
    IF newEncoded = Undefined
    THEN SelectSeq(currentParams, LAMBDA entry : entry.key # key)
    ELSE IF HasKey(currentParams, key)
    THEN [i \in 1..Len(currentParams) |->
             IF currentParams[i].key = key THEN Entry(key, << newEncoded.s >>)
             ELSE currentParams[i]]
    ELSE Append(currentParams, Entry(key, << newEncoded.s >>))

\* useUrlState(key, param, options) rendered with the snapshot urlParams:
\* the hook as the render leaves its refs and value; decoded[encoded] is what
\* param.decode(encoded) returns
ValueFor(hk, encoded, decoded) ==
    IF hk.lastWrittenRef # Null /\ hk.lastWrittenRef.encoded = encoded
    THEN [hk EXCEPT !.value = hk.lastWrittenRef.decoded]
    ELSE IF hk.cacheRef = Null \/ hk.cacheRef.encoded # encoded
    THEN Redecoded(hk, encoded, decoded[encoded])
    ELSE FromCache(hk)
useUrlState(hk, urlParams, decoded) ==
    ValueFor(hk, multiToSingle(Lookup(urlParams, hk.key)), decoded)

\* writeToUrl of hook h up to newUrl
NewUrl(hk, newEncoded) ==
    buildUrl(defaultStrategy, location,
             Updated(parse(defaultStrategy, location), hk.key, newEncoded))
\* window.history[method](state, '', newUrl) as patchHistoryApi patched it,
\* then the dispatch of a popstate event; hs is hooks with the caller's refs
\* updated
writeToUrl(hs, h, newUrl) ==
    /\ location' = newUrl
    /\ history' = [method |-> IF hs[h].push THEN "pushState" ELSE "replaceState", by |-> h]
    /\ hooks' = dispatchEvent(hs, newUrl, {"use-prms:locationchange", "popstate"})

-----------------------------------------------------------------------------
(* SpecUrlState: two components call useUrlState for the key x with the     *)
(* lossy converter floatParam({exp: 5, mant: 8}); the first may debounce    *)
(* its writes. Renders, setValue calls, timers and changes of the location  *)
(* by other code interleave.                                                *)

DebounceMs == 300
HookParam == createLossyBase64Param(PlusZero, [expBits |-> 5, mantBits |-> 8], Undefined)
\* the values given to setValue: 1.005 (encoded 'igQ', which decodes to
\* 1.00390625) and the default 0 (not encoded: the key is deleted)
HookValues == {OneAndFiveThousandths, PlusZero}
\* the parts of the locations other code navigates to: x is absent, 'iwA'
\* (1.5), or 'igQ' next to another key
Raws ==
    {<< >>, << Pair("x", << "i", "w", "A" >>) >>,
     << Pair("y", << "1" >>), Pair("x", << "i", "g", "Q" >>) >>}
\* param.encode and param.decode of the hooks' param, on the values given to
\* setValue and on the strings a location can hold for a key
Encodings ==
    {encode(HookParam, value).val : value \in HookValues}
    \cup {multiToSingle(Lookup(parseMultiParams(raw), "x")) : raw \in Raws}
paramEncode == [value \in HookValues |-> encode(HookParam, value)]
paramDecode == [encoded \in Encodings |-> decode(HookParam, encoded, << >>)]

\* the location with raw as the part the hooks read
Url(raw) == buildUrl(defaultStrategy, location, parseMultiParams(raw))

NewHook(key, debounceMs, push) ==
    [key |-> key, debounceMs |-> debounceMs, push |-> push,
     lastWrittenRef |-> Null, cacheRef |-> Null, debouncedWriteRef |-> "null",
     timeoutId |-> Null, subscribed |-> FALSE, urlParams |-> Null, needsRender |-> TRUE,
     value |-> Undefined, lastSet |-> Null]

InitUrlState ==
    /\ op = "init"
    /\ arg = Undefined
    /\ ret = Undefined
    /\ conv = HookParam
    /\ wbuf = NewBitBuffer
    /\ rbuf = NewBitBuffer
    /\ fields = << >>
    /\ text = Undefined
    /\ opts = Undefined
    /\ nread = 0 - 1
    /\ lookupCache = << >>
    /\ snapshotCache = Undefined
    /\ returned = Undefined
    /\ defaultStrategy \in {"query", "hash"}
    /\ location \in {[search |-> raw, hash |-> raw] : raw \in {<< >>, << Pair("x", << "i", "w", "A" >>) >>}}
    /\ history = [method |-> "none", by |-> "none"]
    /\ hooks \in {[h \in {"slider", "label"} |->
                        NewHook("x", IF h = "slider" THEN d ELSE 0, h = "label")] :
                     d \in {0, DebounceMs}}

\* the hooks whose component calls setValue; the other renders only
Writers == {"slider"}

\* a render of hook h has left it as hk; its effects are committed
Rendered(h, hk, urlParams) ==
    /\ op' = "render"
    /\ arg' = [hook |-> h]
    /\ ret' = Ok(hk.value)
    /\ hooks' = [hooks EXCEPT ![h] = Committed(hk, urlParams)]
    /\ UNCHANGED <<idle, location, history, defaultStrategy>>
Render(h) ==
    Rendered(h, useUrlState(hooks[h], getSnapshot(defaultStrategy, location), paramDecode),
             getSnapshot(defaultStrategy, location))

\* setValue(newValue) of hook h, newEncoded being paramRef.current.encode(newValue)
SetTo(h, newValue, newEncoded, tracked) ==
    /\ op' = "setValue"
    /\ arg' = [hook |-> h, newValue |-> newValue]
    /\ ret' = Ok(Undefined)
    /\ IF hooks[h].debouncedWriteRef = "debounced"
       THEN /\ hooks' = [tracked EXCEPT ![h].timeoutId =
                            [newValue |-> newValue, newEncoded |-> newEncoded]]
            /\ UNCHANGED <<location, history>>
       ELSE writeToUrl(tracked, h, NewUrl(hooks[h], newEncoded))
    /\ UNCHANGED <<idle, defaultStrategy>>
Tracked(h, newValue, newEncoded) ==
    [hooks EXCEPT ![h].lastWrittenRef = [encoded |-> newEncoded, decoded |-> newValue],
                  ![h].lastSet = newValue]
SetEncoded(h, newValue, newEncoded) ==
    SetTo(h, newValue, newEncoded, Tracked(h, newValue, newEncoded))
SetValue(h, newValue) ==
    /\ hooks[h].subscribed
    /\ SetEncoded(h, newValue, paramEncode[newValue].val)

\* the timer of the debounced function of hook h fires
TimerFires(h) ==
    /\ hooks[h].timeoutId # Null
    /\ op' = "timer"
    /\ arg' = [hook |-> h]
    /\ ret' = Ok(Undefined)
    /\ writeToUrl([hooks EXCEPT ![h].timeoutId = Null], h,
                  NewUrl(hooks[h], hooks[h].timeoutId.newEncoded))
    /\ UNCHANGED <<idle, defaultStrategy>>

\* code outside the hooks changes the location to url; events are dispatched
Navigated(name, url, events) ==
    /\ op' = name
    /\ arg' = Undefined
    /\ ret' = Ok(Undefined)
    /\ location' = url
    /\ hooks' = dispatchEvent(hooks, url, events)
    /\ UNCHANGED <<idle, defaultStrategy>>
\* history.pushState(state, '', url) by other code
PushState(raw) ==
    /\ history' = [method |-> "pushState", by |-> "other"]
    /\ Navigated("pushState", Url(raw), {"use-prms:locationchange"})
\* the user goes back or forward to an entry of the session history
PopState(raw) ==
    /\ Url(raw) # location
    /\ history' = [history EXCEPT !.by = "other"]
    /\ Navigated("popstate", Url(raw),
                 IF defaultStrategy = "hash" THEN {"popstate", "hashchange"} ELSE {"popstate"})
\* location.hash = ... by other code
HashChange(hash) ==
    /\ hash # location.hash
    /\ history' = [history EXCEPT !.by = "other"]
    /\ Navigated("hashchange", [location EXCEPT !.hash = hash], {"hashchange"})

NextUrlState ==
    \/ \E h \in DOMAIN hooks : Render(h)
    \/ \E h \in Writers, newValue \in HookValues : SetValue(h, newValue)
    \/ \E h \in DOMAIN hooks : TimerFires(h)
    \/ \E raw \in Raws : PushState(raw)
    \/ \E raw \in Raws : PopState(raw)
    \/ \E hash \in Raws : HashChange(hash)

SpecUrlState == InitUrlState /\ [][NextUrlState]_vars

\* the encoded value the location holds for the key of hook h
UrlEncoded(h) == multiToSingle(Lookup(getSnapshot(defaultStrategy, location), hooks[h].key))

(* C17: with debounce > 0 setValue(v) updates the hook's state at once and  *)
(* only the URL write is delayed: every render of the hook after            *)
(* setValue(v) and before the debounce timer fires returns v, while the     *)
(* location still holds the old encoding.                                   *)
C17_RenderBeforeTimerReturnsNewValue ==
    (op = "render" /\ hooks[arg.hook].timeoutId # Null) =>
        ret.val = hooks[arg.hook].timeoutId.newValue

(* C18: once the location holds the encoding written by the hook's latest   *)
(* setValue(v) (the hook wrote the location last and no later setValue is   *)
(* waiting for its timer), a render of the hook returns v itself.           *)
C18_WrittenValueReturnedItself ==
    (op = "render" /\ history.by = arg.hook /\ hooks[arg.hook].timeoutId = Null) =>
        ret.val = hooks[arg.hook].lastSet

\* a change of the location by other code that the strategy listens to
ExternalChange ==
    op \in {"pushState", "popstate"} \/ (op = "hashchange" /\ defaultStrategy = "hash")

-----------------------------------------------------------------------------
(* hooks.ts: useUrlStates. lastWrittenRef.current and the argument of       *)
(* writeToUrl are records from keys to { encoded, decoded }. Ghost fields:  *)
(* requested, the updates of the setValues calls made since the hook last   *)
(* wrote the location, and calls, the history calls made for them.          *)

\* {...older, ...newer}
Assigned(older, newer) ==
    [k \in DOMAIN older \cup DOMAIN newer |-> IF k \in DOMAIN newer THEN newer[k] ELSE older[k]]

\* useUrlStates(params, options) rendered with the snapshot urlParams: the
\* hook with its values and with lastWrittenRef as the map callback leaves it
TrackedKeys(hk, urlParams) ==
    {key \in DOMAIN hk.lastWrittenRef :
        hk.lastWrittenRef[key].encoded = multiToSingle(Lookup(urlParams, key))}
ValuesFor(hk, urlParams, decoded, tracked) ==
    [hk EXCEPT !.values = [key \in hk.params |->
                              IF key \in tracked THEN hk.lastWrittenRef[key].decoded
                              ELSE decoded[multiToSingle(Lookup(urlParams, key))].val],
               !.lastWrittenRef = [key \in tracked |-> hk.lastWrittenRef[key]]]
useUrlStates(hk, urlParams, decoded) ==
    ValuesFor(hk, urlParams, decoded, TrackedKeys(hk, urlParams))

\* currentParams after the loop over Object.entries(updates)
\* (Object.entries(updates) visits the keys in the order the literal given to
\* setValues writes them in: KeyOrder for the updates drawn here)
KeyOrder == << "x", "y", "z" >>
RECURSIVE UpdatedFrom(_, _, _)
UpdatedFrom(currentParams, updates, i) ==
    IF i > Len(KeyOrder) THEN currentParams
    ELSE UpdatedFrom(IF KeyOrder[i] \in DOMAIN updates
                     THEN Updated(currentParams, KeyOrder[i], updates[KeyOrder[i]].encoded)
                     ELSE currentParams,
                     updates, i + 1)
UpdatedAll(currentParams, updates) == UpdatedFrom(currentParams, updates, 1)
\* writeToUrl(updates) of useUrlStates up to newUrl
NewUrlAll(updates) ==
    buildUrl(defaultStrategy, location, UpdatedAll(parse(defaultStrategy, location), updates))
\* the history call as patchHistoryApi patched it and the popstate event
writeAllToUrl(hs, h, newUrl) ==
    /\ location' = newUrl
    /\ history' = [method |-> IF hs[h].push THEN "pushState" ELSE "replaceState", by |-> h]
    /\ hooks' = dispatchEvent([hs EXCEPT ![h].calls = @ + 1], newUrl,
                              {"use-prms:locationchange", "popstate"})

-----------------------------------------------------------------------------
(* SpecUrlStates: one component calls useUrlStates({y, z}) with the lossy   *)
(* converter for both keys: with push and no debounce, or with debounce and *)
(* replaceState.                                                            *)

\* the updates given to setValues: none, one key, both keys, a key back to
\* its default, and a key the hook has no param for
UpdateInputs ==
    {<< >>,
     [y |-> OneAndFiveThousandths],
     [z |-> OneAndFiveThousandths],
     [y |-> OneAndFiveThousandths, z |-> OneAndFiveThousandths],
     [y |-> PlusZero],
     [w |-> OneAndFiveThousandths]}
\* the parts of the locations other code navigates to
StatesRaws ==
    {<< >>, << Pair("z", << "i", "w", "A" >>), Pair("y", << "i", "g", "Q" >>) >>}

NewStatesHook(params, debounceMs, push) ==
    [params |-> params, debounceMs |-> debounceMs, push |-> push,
     lastWrittenRef |-> << >>, debouncedWriteRef |-> "null", timeoutId |-> Null,
     subscribed |-> FALSE, urlParams |-> Null, needsRender |-> TRUE, values |-> Undefined,
     requested |-> << >>, calls |-> 0]

InitUrlStates ==
    /\ op = "init"
    /\ arg = Undefined
    /\ ret = Undefined
    /\ conv = HookParam
    /\ wbuf = NewBitBuffer
    /\ rbuf = NewBitBuffer
    /\ fields = << >>
    /\ text = Undefined
    /\ opts = Undefined
    /\ nread = 0 - 1
    /\ lookupCache = << >>
    /\ snapshotCache = Undefined
    /\ returned = Undefined
    /\ defaultStrategy \in {"query", "hash"}
    /\ location = [search |-> << >>, hash |-> << >>]
    /\ history = [method |-> "none", by |-> "none"]
    /\ hooks \in {[h \in {"grid"} |-> NewStatesHook({"y", "z"}, d, d = 0)] :
                     d \in {0, DebounceMs}}

\* a render of the hook has left it as hk; its effects are committed
RenderedStates(h, hk, urlParams) ==
    /\ op' = "render"
    /\ arg' = [hook |-> h]
    /\ ret' = Ok(hk.values)
    /\ hooks' = [hooks EXCEPT ![h] = Committed(hk, urlParams)]
    /\ UNCHANGED <<idle, location, history, defaultStrategy>>
RenderStates(h) ==
    RenderedStates(h, useUrlStates(hooks[h], getSnapshot(defaultStrategy, location), paramDecode),
                   getSnapshot(defaultStrategy, location))

\* the loop of setValues over Object.entries(updates): keys without a param
\* are skipped
EncodedUpdates(hk, updates) ==
    [key \in DOMAIN updates \cap hk.params |->
        [encoded |-> paramEncode[updates[key]].val, decoded |-> updates[key]]]
\* setValues(updates) of hook h, tracked being hooks with its lastWrittenRef
\* (and ghosts) updated
SetAllTo(h, updates, encodedUpdates, tracked) ==
    /\ op' = "setValues"
    /\ arg' = [hook |-> h, updates |-> updates]
    /\ ret' = Ok(Undefined)
    /\ IF hooks[h].debouncedWriteRef = "debounced"
       THEN /\ hooks' = [tracked EXCEPT ![h].timeoutId = [updates |-> encodedUpdates]]
            /\ UNCHANGED <<location, history>>
       ELSE writeAllToUrl(tracked, h, NewUrlAll(encodedUpdates))
    /\ UNCHANGED <<idle, defaultStrategy>>
TrackedAll(h, encodedUpdates) ==
    [hooks EXCEPT ![h].lastWrittenRef = Assigned(@, encodedUpdates),
                  ![h].requested = Assigned(IF hooks[h].timeoutId = Null THEN << >> ELSE @,
                                            encodedUpdates),
                  ![h].calls = IF hooks[h].timeoutId = Null THEN 0 ELSE @]
SetAllEncoded(h, updates, encodedUpdates) ==
    SetAllTo(h, updates, encodedUpdates, TrackedAll(h, encodedUpdates))
SetValues(h, updates) ==
    /\ hooks[h].subscribed
    /\ SetAllEncoded(h, updates, EncodedUpdates(hooks[h], updates))

\* the timer of the debounced function of the hook fires
TimerFiresStates(h) ==
    /\ hooks[h].timeoutId # Null
    /\ op' = "timer"
    /\ arg' = [hook |-> h]
    /\ ret' = Ok(Undefined)
    /\ writeAllToUrl([hooks EXCEPT ![h].timeoutId = Null], h,
                     NewUrlAll(hooks[h].timeoutId.updates))
    /\ UNCHANGED <<idle, defaultStrategy>>

NextUrlStates ==
    \/ \E h \in DOMAIN hooks : RenderStates(h)
    \/ \E h \in DOMAIN hooks, updates \in UpdateInputs : SetValues(h, updates)
    \/ \E h \in DOMAIN hooks : TimerFiresStates(h)
    \/ \E raw \in StatesRaws : PushState(raw)
    \/ \E raw \in StatesRaws : PopState(raw)
    \/ \E hash \in StatesRaws : HashChange(hash)

SpecUrlStates == InitUrlStates /\ [][NextUrlStates]_vars

\* the location holds the encoding of every key of updates
AllHeld(updates) ==
    \A key \in DOMAIN updates :
        multiToSingle(Lookup(getSnapshot(defaultStrategy, location), key)) = updates[key].encoded

(* C19: setValues(updates) with any number of keys performs exactly one     *)
(* history.pushState / replaceState call (at once, or when the debounce     *)
(* timer fires), and after that call the location holds the encodings of    *)
(* all the keys updated since the hook last wrote, never only some of them. *)
C19_OneHistoryCallWritesAllKeys ==
    ((op = "setValues" /\ hooks[arg.hook].debouncedWriteRef = "null") \/ op = "timer") =>
        /\ hooks[arg.hook].calls = 1
        /\ AllHeld(hooks[arg.hook].requested)

(* C25: with debounce > 0 every key passed to setValues is written: when    *)
(* the debounce timer fires, the location holds the encoding of every key   *)
(* passed to the setValues calls of the window it closes (setValues({y: v}) *)
(* then setValues({z: w}) leaves both y and z in the URL).                  *)
C25_TimerWritesEveryKey ==
    (op = "timer") => AllHeld(hooks[arg.hook].requested)


-----------------------------------------------------------------------------
(* SpecWrite: the writeToUrl functions of useUrlState (key x), useUrlStates *)
(* (keys y and z) and useMultiUrlState (key tag) are called, at once or by  *)
(* a debounce timer, on locations that hold other keys too. arg holds, next *)
(* to the arguments, window.location.href as the call found it and the      *)
(* ordinal of the call.                                                     *)

MaxUrlWrites == 2
\* the parts of the locations: no key; keys with one and with two values;
\* 't=' next to another key; 't=&t='; 't=&t=a' next to tag
WriteRaws ==
    {<< >>,
     << Pair("x", << "1" >>), Pair("t", << "a" >>), Pair("t", << "b" >>) >>,
     << Pair("t", << >>), Pair("y", << "1" >>) >>,
     << Pair("t", << >>), Pair("t", << >>) >>,
     << Pair("t", << >>), Pair("t", << "a" >>), Pair("tag", << "b" >>) >>}
\* newEncoded of useUrlState.writeToUrl
SingleEncoded == {Undefined, Str(<< "2" >>)}
\* updates of useUrlStates.writeToUrl
AllEncoded ==
    {[y |-> [encoded |-> Str(<< "2" >>)]],
     [y |-> [encoded |-> Undefined], z |-> [encoded |-> Str(<< "2" >>)]]}
\* newEncoded of useMultiUrlState.writeToUrl
MultiEncodedLists == {<< >>, << << "c" >> >>, << << >>, << "c" >> >>}

InitWrite ==
    /\ op = "init"
    /\ arg = [call |-> 0]
    /\ ret = Undefined
    /\ conv = Undefined
    /\ wbuf = NewBitBuffer
    /\ rbuf = NewBitBuffer
    /\ fields = << >>
    /\ text = Undefined
    /\ opts = Undefined
    /\ nread = 0 - 1
    /\ lookupCache = << >>
    /\ snapshotCache = Undefined
    /\ returned = Undefined
    /\ defaultStrategy \in {"query", "hash"}
    /\ \E raw \in WriteRaws :
          location \in {[search |-> raw, hash |-> << Pair("t", << "a" >>) >>],
                        [search |-> << Pair("t", << "a" >>) >>, hash |-> raw]}
    /\ history = [method |-> "none", by |-> "none"]
    /\ hooks = << >>

\* currentParams after `delete currentParams[key]` or `currentParams[key] = newEncoded`
UpdatedMulti(currentParams, key, newEncoded) ==
    IF Len(newEncoded) = 0
    THEN SelectSeq(currentParams, LAMBDA entry : entry.key # key)
    ELSE IF HasKey(currentParams, key)
    THEN [i \in 1..Len(currentParams) |->
             IF currentParams[i].key = key THEN Entry(key, newEncoded)
             ELSE currentParams[i]]
    ELSE Append(currentParams, Entry(key, newEncoded))
\* writeToUrl of useMultiUrlState up to newUrl
NewUrlMulti(key, newEncoded) ==
    buildUrl(defaultStrategy, location,
             UpdatedMulti(parse(defaultStrategy, location), key, newEncoded))

\* a writeToUrl of the hook by for the keys written, which builds newUrl
Written(by, written, newUrl, push) ==
    /\ arg.call < MaxUrlWrites
    /\ op' = "writeToUrl"
    /\ arg' = [written |-> written, href |-> location, call |-> arg.call + 1]
    /\ ret' = Undefined
    /\ location' = newUrl
    /\ history' = [method |-> IF push THEN "pushState" ELSE "replaceState", by |-> by]
    /\ UNCHANGED <<idle, defaultStrategy, hooks>>
WriteSingle(newEncoded, push) ==
    Written("useUrlState", {"x"}, NewUrl([key |-> "x"], newEncoded), push)
WriteAll(updates, push) ==
    Written("useUrlStates", DOMAIN updates, NewUrlAll(updates), push)
WriteMulti(newEncoded, push) ==
    Written("useMultiUrlState", {"tag"}, NewUrlMulti("tag", newEncoded), push)

NextWrite ==
    \/ \E newEncoded \in SingleEncoded, push \in BOOLEAN : WriteSingle(newEncoded, push)
    \/ \E updates \in AllEncoded, push \in BOOLEAN : WriteAll(updates, push)
    \/ \E newEncoded \in MultiEncodedLists, push \in BOOLEAN : WriteMulti(newEncoded, push)

SpecWrite == InitWrite /\ [][NextWrite]_vars

\* the keys of a record
KeysOf(params) == {params[i].key : i \in 1..Len(params)}

(* C27: a hook write changes only the keys written: every other key of the *)
(* location as writeToUrl found it has the same list of values in the       *)
(* location it leaves.                                                      *)
C27_OtherKeysKept ==
    (op = "writeToUrl") =>
        \A key \in KeysOf(parse(defaultStrategy, arg.href)) \ arg.written :
            Lookup(parse(defaultStrategy, location), key)
                = Lookup(parse(defaultStrategy, arg.href), key)


-----------------------------------------------------------------------------
(* SpecLookup: base64Decode and BitBuffer.fromBase64 are called in any      *)
(* order with the alphabet options a caller may give. fields is here the    *)
(* ghost list of the alphabets createLookupMap was called with, the first   *)
(* at module load for DEFAULT_LOOKUP; arg holds the ordinal of the call.    *)

MaxDecodes == 3
LookupStrings == {<< "A", "A" >>, << "-", "_", "z" >>}

InitLookup ==
    /\ op = "init"
    /\ arg = [call |-> 0]
    /\ ret = Undefined
    /\ conv = Undefined
    /\ wbuf = NewBitBuffer
    /\ rbuf = NewBitBuffer
    /\ fields = << ALPHABETS[NameRfc4648] >>
    /\ text = Undefined
    /\ opts = Undefined
    /\ nread = 0 - 1
    /\ lookupCache = << >>
    /\ NoPage

\* a decode call that returned r, made buf and called createLookupMap with
\* the alphabets built
LookupCall(name, str, options, r, cache, buf, built) ==
    /\ arg.call < MaxDecodes
    /\ op' = name
    /\ arg' = [str |-> str, options |-> options, call |-> arg.call + 1]
    /\ ret' = [threw |-> r.threw, val |-> r.val]
    /\ lookupCache' = cache
    /\ rbuf' = buf
    /\ fields' = fields \o built
    /\ UNCHANGED <<page, conv, wbuf, text, opts, nread>>
\* getLookupMap calls createLookupMap for the alphabet it adds to the cache
LookupDecoded(str, options, r) ==
    LookupCall("base64Decode", str, options, r, r.cache, rbuf,
               IF DOMAIN r.cache = DOMAIN lookupCache THEN << >>
               ELSE << CHOOSE a \in DOMAIN r.cache \ DOMAIN lookupCache : TRUE >>)
LookupBase64Decode(str, options) ==
    LookupDecoded(str, options, base64Decode(str, options, lookupCache))
\* BitBuffer.fromBase64 calls createLookupMap once resolveAlphabet returned
LookupMade(str, options, r, alphabet) ==
    LookupCall("fromBase64", str, options, r, lookupCache,
               IF r.threw THEN rbuf ELSE r.val,
               IF alphabet.threw \/ ~IsStr(alphabet.val) THEN << >> ELSE << alphabet.val.s >>)
LookupFromBase64(str, options) ==
    LookupMade(str, options, fromBase64(str, options),
               resolveAlphabet(AlphabetOrDefault(options)))

NextLookup ==
    \/ \E str \in LookupStrings, options \in AlphabetOptions : LookupBase64Decode(str, options)
    \/ \E str \in LookupStrings, options \in AlphabetOptions : LookupFromBase64(str, options)

SpecLookup == InitLookup /\ [][NextLookup]_vars

(* C28: the symbol-to-value table is built at most once per distinct        *)
(* alphabet string across all decode calls, base64Decode and                *)
(* BitBuffer.fromBase64 alike: createLookupMap is never called twice with   *)
(* the same alphabet, and no entry of lookupCache is replaced or removed.   *)
C28_LookupBuiltOnce ==
    /\ \A i, j \in 1..Len(fields) : fields[i] = fields[j] => i = j
    /\ \A a \in DOMAIN lookupCache : lookupCache[a] = createLookupMap(a)


-----------------------------------------------------------------------------
(* SpecSnapshot: getSnapshot is called for the query and the hash strategy  *)
(* while other code changes location.search and location.hash. A snapshot   *)
(* is [id, params]: params what strategy.parse() returned and id the        *)
(* identity of the object, the ordinal of the call that made it. arg holds  *)
(* the ordinal of the call.                                                 *)

MaxSnapshotCalls == 4
SnapshotRaws == {<< >>, << Pair("x", << "1" >>) >>}

\* fault: a snapshotCache with one entry for all strategies
getSnapshotOneEntry(strategy, loc, cache, fresh) ==
    IF "query" \in DOMAIN cache /\ cache["query"].raw = getRaw(strategy, loc)
    THEN [snapshot |-> cache["query"].snapshot, cache |-> cache]
    ELSE [snapshot |-> [id |-> fresh, params |-> parse(strategy, loc)],
          cache |-> [s \in {"query"} |->
                        [raw |-> getRaw(strategy, loc),
                         snapshot |-> [id |-> fresh, params |-> parse(strategy, loc)]]]]

\* getSnapshot(strategy) with the module-level snapshotCache passed in and
\* out; fresh is the identity of the object strategy.parse() would make
getSnapshotCached(strategy, loc, cache, fresh) ==
    IF strategy \in DOMAIN cache /\ cache[strategy].raw = getRaw(strategy, loc)
    THEN [snapshot |-> cache[strategy].snapshot, cache |-> cache]
    ELSE [snapshot |-> [id |-> fresh, params |-> parse(strategy, loc)],
          cache |-> [s \in DOMAIN cache \cup {strategy} |->
                        IF s = strategy
                        THEN [raw |-> getRaw(strategy, loc),
                              snapshot |-> [id |-> fresh, params |-> parse(strategy, loc)]]
                        ELSE cache[s]]]

InitSnapshot ==
    /\ op = "init"
    /\ arg = [call |-> 0]
    /\ ret = Undefined
    /\ conv = Undefined
    /\ wbuf = NewBitBuffer
    /\ rbuf = NewBitBuffer
    /\ fields = << >>
    /\ text = Undefined
    /\ opts = Undefined
    /\ nread = 0 - 1
    /\ lookupCache = << >>
    /\ location \in [search : SnapshotRaws, hash : SnapshotRaws]
    /\ history = Undefined
    /\ hooks = Undefined
    /\ defaultStrategy = Undefined
    /\ snapshotCache = << >>
    /\ returned = << >>

\* a call of getSnapshot(strategy) that returned r.snapshot
SnapshotCall(strategy, r) ==
    /\ arg.call < MaxSnapshotCalls
    /\ op' = "getSnapshot"
    /\ arg' = [strategy |-> strategy, call |-> arg.call + 1]
    /\ ret' = r.snapshot
    /\ snapshotCache' = r.cache
    /\ returned' = Append(returned, [strategy |-> strategy, raw |-> getRaw(strategy, location),
                                     snapshot |-> r.snapshot])
    /\ UNCHANGED <<conv, wbuf, rbuf, fields, text, opts, nread, lookupCache,
                   location, history, hooks, defaultStrategy>>
GetSnapshot(strategy) ==
    SnapshotCall(strategy, getSnapshotCached(strategy, location, snapshotCache, arg.call + 1))
\* other code sets location.search or location.hash
Navigate(part, raw) ==
    /\ arg.call < MaxSnapshotCalls
    /\ op' = "navigate"
    /\ arg' = [part |-> part, call |-> arg.call + 1]
    /\ ret' = Undefined
    /\ location' = [location EXCEPT ![part] = raw]
    /\ UNCHANGED <<conv, wbuf, rbuf, fields, text, opts, nread, lookupCache,
                   history, hooks, defaultStrategy, snapshotCache, returned>>

NextSnapshot ==
    \/ \E strategy \in {"query", "hash"} : GetSnapshot(strategy)
    \/ \E part \in {"search", "hash"}, raw \in SnapshotRaws : Navigate(part, raw)

SpecSnapshot == InitSnapshot /\ [][NextSnapshot]_vars

\* the calls before the last one made for the same strategy
EarlierCalls(strategy) ==
    {i \in 1..(Len(returned) - 1) : returned[i].strategy = strategy}
\* the object the last call returned was returned by no call before it
FreshObject ==
    \A i \in 1..(Len(returned) - 1) : returned[i].snapshot.id # ret.id
\* the last of the calls made before for the same strategy
PreviousCall(strategy) ==
    returned[CHOOSE i \in EarlierCalls(strategy) : \A j \in EarlierCalls(strategy) : j <= i]

(* C29: getSnapshot(strategy) returns what strategy.parse() gives for the   *)
(* location; it returns the identical object the previous call for that     *)
(* strategy returned exactly when strategy.getRaw() equals the raw string   *)
(* of that call, and a newly parsed object otherwise; the query and the     *)
(* hash strategy never return each other's object.                          *)
C29_SnapshotCachedPerStrategy ==
    (op = "getSnapshot") =>
        /\ ret.params = parse(arg.strategy, location)
        /\ IF EarlierCalls(arg.strategy) # {}
              /\ PreviousCall(arg.strategy).raw = getRaw(arg.strategy, location)
           THEN ret = PreviousCall(arg.strategy).snapshot
           ELSE FreshObject
        /\ \A i \in 1..(Len(returned) - 1) :
              returned[i].strategy # arg.strategy => returned[i].snapshot.id # ret.id

\* getSnapshot(hash), getSnapshot(query) with an equal raw string, then
\* getSnapshot(hash): the third call returns the object of the first
C29_Witness ==
    /\ op = "getSnapshot"
    /\ arg.strategy = "hash"
    /\ Len(returned) = 3
    /\ returned[1].strategy = "hash"
    /\ returned[2].strategy = "query"
    /\ returned[2].raw = returned[1].raw
    /\ ret = returned[1].snapshot
    /\ ret.id = 1

=============================================================================
